---- MODULE Spec2Model ----
(***************************************************************************)
(* Omnibar filter query language of the Thorium UI: tokenizer, filter      *)
(* state mapper and query string serializer (use_omnibar_parser.ts), and   *)
(* the component state that publishes the FilterState (omnibar.tsx,        *)
(* images page).  Text is modelled as a sequence of one-character strings. *)
(***************************************************************************)
EXTENDS Integers, Sequences, FiniteSets, TLC

VARIABLES
    inputValue,     \* Omnibar useState('') : the raw text of the input box
    filters,        \* Images useState(DEFAULT_FILTER_STATE) : published FilterState
    currentUser,    \* userInfo?.username || ''
    q,              \* the URL search parameter q (<<>> when absent)
    mounted,        \* whether the Images page has run its mount effect
    showSuggestions,            \* Omnibar useState(false)
    selectedSuggestionIndex,    \* Omnibar useState(0), 0-based
    selectionStart,             \* inputRef.current.selectionStart : the caret
    availableGroups,            \* Omnibar props: the known values
    availableScalers,
    availableCreators,
    availablePipelines,
    arrays,         \* the array objects of the JavaScript heap, by identity
    objects,        \* the FilterState objects of the heap, by identity
    current,        \* the identity of the FilterState object the page holds
    tags,                   \* EditableRepoTags props: the tags of the repo
    editing,                \* EditableRepoTags useState(false)
    pendingTags,            \* useState({}) : key -> values to add
    deletedTags,            \* useState({}) : key -> values to delete
    invalidPendingTags,     \* useState([]) : created keys without a value
    selectedGeneralTags,    \* useState([]) : value of the Tags select
    selectedTlpTags,        \* useState([]) : value of the TLP select
    showUpdateModal,        \* useState(false)
    numberOfChanges,        \* useState(0)
    commit,                 \* the running commitTagUpdates call, if any
    requests,               \* the REST requests issued so far, in order
    showCommits,            \* Commits useState(true)
    showBranches,           \* Commits useState(true)
    showTags,               \* Commits useState(true)
    commitishList,          \* Commits useState([])
    cursor,                 \* Commits useState(undefined)
    hasMore,                \* Commits useState(false)
    loading,                \* Commits useState(false)
    fetches                 \* the fetchCommitish calls awaiting their response

\* the props of the Omnibar that its handlers never change
props == <<currentUser, availableGroups, availableScalers, availableCreators,
           availablePipelines>>

\* the Images page and its Omnibar
omnibar == <<inputValue, filters, q, mounted, showSuggestions,
             selectedSuggestionIndex, selectionStart, props>>

\* the FilterState objects and their arrays
heap == <<arrays, objects, current>>

\* the tag editor of the repo page
tagEditor == <<tags, editing, pendingTags, deletedTags, invalidPendingTags,
               selectedGeneralTags, selectedTlpTags, showUpdateModal,
               numberOfChanges, commit, requests>>

\* the commits tab of the repo page
commitsTab == <<showCommits, showBranches, showTags, commitishList, cursor,
                hasMore, loading, fetches>>

\* what no handler of the Omnibar touches
elsewhere == <<heap, tagEditor, commitsTab>>

vars == <<omnibar, heap, tagEditor, commitsTab>>

----------------------------------------------------------------------------
(* Characters and character classes of the JavaScript regular expressions. *)

QUOTE == "\""

LowerLetters == <<"a","b","c","d","e","f","g","h","i","j","k","l","m",
                  "n","o","p","q","r","s","t","u","v","w","x","y","z">>

UpperLetters == <<"A","B","C","D","E","F","G","H","I","J","K","L","M",
                  "N","O","P","Q","R","S","T","U","V","W","X","Y","Z">>

Digits == {"0","1","2","3","4","5","6","7","8","9"}

\* \w : [A-Za-z0-9_]
WordChars ==
    {LowerLetters[i] : i \in 1..26} \cup {UpperLetters[i] : i \in 1..26}
        \cup Digits \cup {"_"}

\* \s (the members a TLA+ string can spell)
WhiteSpace == {" ", "\t", "\n", "\r", "\f"}

\* String.prototype.toLowerCase, one character
LowerChar(c) ==
    IF \E i \in 1..26 : UpperLetters[i] = c
    THEN LowerLetters[CHOOSE i \in 1..26 : UpperLetters[i] = c]
    ELSE c

\* String.prototype.toLowerCase
toLowerCase(s) == [i \in 1..Len(s) |-> LowerChar(s[i])]

\* String.prototype.includes(' ')
includesSpace(s) == \E i \in 1..Len(s) : s[i] = " "

----------------------------------------------------------------------------
(* TOKEN_PATTERN = /(-?)(\w+):("[^"]*"|[^\s]+)/g                           *)

RECURSIVE WordRunEnd(_, _)
\* first index >= j that is not a word character (greedy \w+)
WordRunEnd(s, j) ==
    IF j <= Len(s) /\ s[j] \in WordChars THEN WordRunEnd(s, j + 1) ELSE j

RECURSIVE NonSpaceRunEnd(_, _)
\* first index >= j that is whitespace or past the end (greedy [^\s]+)
NonSpaceRunEnd(s, j) ==
    IF j <= Len(s) /\ s[j] \notin WhiteSpace THEN NonSpaceRunEnd(s, j + 1) ELSE j

RECURSIVE NextQuote(_, _)
\* index of the first double quote at or after j, 0 when there is none ([^"]*")
NextQuote(s, j) ==
    IF j > Len(s) THEN 0
    ELSE IF s[j] = QUOTE THEN j
    ELSE NextQuote(s, j + 1)

\* The match of TOKEN_PATTERN anchored at index i: [colon |-> index of ':',
\* end |-> index after the match], end = 0 when the pattern does not match at i.
\* The quoted alternative is tried first; when it fails the non-whitespace
\* alternative is tried on the same text.
MatchAt(s, i) ==
    LET j == IF s[i] = "-" THEN i + 1 ELSE i
        k == WordRunEnd(s, j)
    IN  IF k = j \/ k > Len(s) \/ s[k] # ":"
        THEN [colon |-> 0, end |-> 0]
        ELSE LET v  == k + 1
                 cq == IF v <= Len(s) /\ s[v] = QUOTE THEN NextQuote(s, v + 1) ELSE 0
                 e  == NonSpaceRunEnd(s, v)
             IN  IF cq # 0 THEN [colon |-> k, end |-> cq + 1]
                 ELSE IF e = v THEN [colon |-> 0, end |-> 0]
                 ELSE [colon |-> k, end |-> e]

RECURSIVE MatchesFrom(_, _)
\* Successive leftmost matches from lastIndex i (RegExp.prototype.exec with
\* the g flag): a sequence of [start, colon, end].
MatchesFrom(s, i) ==
    IF i > Len(s) THEN <<>>
    ELSE LET m == MatchAt(s, i)
         IN  IF m.end = 0 THEN MatchesFrom(s, i + 1)
             ELSE <<[start |-> i, colon |-> m.colon, end |-> m.end]>>
                      \o MatchesFrom(s, m.end)

TOKEN_PATTERN(s) == MatchesFrom(s, 1)

----------------------------------------------------------------------------
(* ParsedToken and parseInput / extractFreeText                            *)

\* String.prototype.slice(1, -1) of a value that starts and ends with '"'
StripQuotes(v) ==
    IF Len(v) > 0 /\ v[1] = QUOTE /\ v[Len(v)] = QUOTE
    THEN SubSeq(v, 2, Len(v) - 1)
    ELSE v

\* the key as written, not lower-cased
TokenKey_KeepCase(s, m) ==
    SubSeq(s, IF s[m.start] = "-" THEN m.start + 1 ELSE m.start, m.colon - 1)

\* match[2].toLowerCase()
TokenKey(s, m) ==
    toLowerCase(SubSeq(s, IF s[m.start] = "-" THEN m.start + 1 ELSE m.start, m.colon - 1))

\* One ParsedToken {key, value, negated, raw} from one match of TOKEN_PATTERN
TokenOf(s, m) ==
    [key     |-> TokenKey(s, m),
     value   |-> StripQuotes(SubSeq(s, m.colon + 1, m.end - 1)),
     negated |-> s[m.start] = "-",
     raw     |-> SubSeq(s, m.start, m.end - 1)]

parseInput(input) ==
    LET ms == TOKEN_PATTERN(input)
    IN  [n \in 1..Len(ms) |-> TokenOf(input, ms[n])]

RECURSIVE RemoveSpans(_, _, _)
\* input.replace(TOKEN_PATTERN, '') : the text outside every match, from index i
RemoveSpans(s, ms, i) ==
    IF i > Len(s) THEN <<>>
    ELSE IF ms # <<>> /\ ms[1].start = i THEN RemoveSpans(s, Tail(ms), ms[1].end)
    ELSE <<s[i]>> \o RemoveSpans(s, ms, i + 1)

RECURSIVE TrimStart(_)
TrimStart(s) ==
    IF s # <<>> /\ s[1] \in WhiteSpace THEN TrimStart(Tail(s)) ELSE s

RECURSIVE TrimEnd(_)
TrimEnd(s) ==
    IF s # <<>> /\ s[Len(s)] \in WhiteSpace THEN TrimEnd(SubSeq(s, 1, Len(s) - 1)) ELSE s

\* String.prototype.trim
Trim(s) == TrimEnd(TrimStart(s))

RECURSIVE CollapseSpaces(_)
\* replace(/\s+/g, ' ') : every whitespace run becomes one space
CollapseSpaces(s) ==
    IF s = <<>> THEN <<>>
    ELSE IF s[1] \in WhiteSpace
    THEN <<" ">> \o CollapseSpaces(TrimStart(s))
    ELSE <<s[1]>> \o CollapseSpaces(Tail(s))

\* the residual trimmed, its whitespace runs left as they are
extractFreeText_NoCollapse(input) ==
    Trim(RemoveSpans(input, TOKEN_PATTERN(input), 1))

extractFreeText(input) ==
    CollapseSpaces(Trim(RemoveSpans(input, TOKEN_PATTERN(input), 1)))

----------------------------------------------------------------------------
(* FilterState and tokensToFilters                                         *)

\* the filter keys and reserved words, as text
kGroup     == <<"g","r","o","u","p">>
kScaler    == <<"s","c","a","l","e","r">>
kCreator   == <<"c","r","e","a","t","o","r">>
kPipeline  == <<"p","i","p","e","l","i","n","e">>
kIs        == <<"i","s">>
kGenerator == <<"g","e","n","e","r","a","t","o","r">>
kUsed      == <<"u","s","e","d">>
kOrphan    == <<"o","r","p","h","a","n">>
kAtMe      == <<"@","m","e">>

\* ['yes', 'true', '1'] and ['no', 'false', '0']
YesWords == {<<"y","e","s">>, <<"t","r","u","e">>, <<"1">>}
NoWords  == {<<"n","o">>, <<"f","a","l","s","e">>, <<"0">>}

\* boolean | null
NULL == "null"
Bool(b) == IF b THEN "true" ELSE "false"

DEFAULT_FILTER_STATE ==
    [search           |-> <<>>,
     groups           |-> <<>>,
     excludeGroups    |-> <<>>,
     scalers          |-> <<>>,
     excludeScalers   |-> <<>>,
     generator        |-> NULL,
     creators         |-> <<>>,
     excludeCreators  |-> <<>>,
     used             |-> NULL,
     pipelines        |-> <<>>,
     excludePipelines |-> <<>>]

\* the expansion without the test that a current user is known
ExpandMe_NoUserCheck(value, user) == IF value = kAtMe THEN user ELSE value

\* token.value === '@me' && currentUser ? currentUser : token.value
ExpandMe(value, user) ==
    IF value = kAtMe /\ user # <<>> THEN user ELSE value

\* case 'is' of the switch: is:generator
IsGeneratorCase(f, t) ==
    IF toLowerCase(t.value) = kGenerator
    THEN [f EXCEPT !.generator = Bool(~t.negated)]
    ELSE f

\* case 'generator' with the no words giving false whatever the negation
GeneratorCase_NoIgnoresNegation(f, t) ==
    LET isYes == toLowerCase(t.value) \in YesWords
        isNo  == toLowerCase(t.value) \in NoWords
    IN  IF isYes THEN [f EXCEPT !.generator = Bool(~t.negated)]
        ELSE IF isNo THEN [f EXCEPT !.generator = "false"]
        ELSE f

\* case 'generator' of the switch: generator:yes|true|1 / no|false|0
GeneratorCase(f, t) ==
    LET isYes == toLowerCase(t.value) \in YesWords
        isNo  == toLowerCase(t.value) \in NoWords
    IN  IF isYes THEN [f EXCEPT !.generator = Bool(~t.negated)]
        ELSE IF isNo THEN [f EXCEPT !.generator = Bool(t.negated)]
        ELSE f

\* case 'group' without the negation test
GroupCase_IgnoreNegation(f, t) == [f EXCEPT !.groups = Append(@, t.value)]

\* case 'group'
GroupCase(f, t) ==
    IF t.negated THEN [f EXCEPT !.excludeGroups = Append(@, t.value)]
    ELSE [f EXCEPT !.groups = Append(@, t.value)]

\* case 'scaler'
ScalerCase(f, t) ==
    IF t.negated THEN [f EXCEPT !.excludeScalers = Append(@, t.value)]
    ELSE [f EXCEPT !.scalers = Append(@, t.value)]

\* case 'creator'
CreatorCase(f, t, user) ==
    IF t.negated
    THEN [f EXCEPT !.excludeCreators = Append(@, ExpandMe(t.value, user))]
    ELSE [f EXCEPT !.creators = Append(@, ExpandMe(t.value, user))]

\* case 'pipeline'
PipelineCase(f, t) ==
    IF t.negated THEN [f EXCEPT !.excludePipelines = Append(@, t.value)]
    ELSE [f EXCEPT !.pipelines = Append(@, t.value)]

\* a key with no case in the switch, its text surfacing in search
UnknownKeyCase_ToSearch(f, t) == [f EXCEPT !.search = @ \o t.raw]

\* a key with no case in the switch: nothing runs
UnknownKeyCase(f, t) == f

\* the switch (token.key) of tokensToFilters
SwitchKey(f, t, user) ==
    CASE t.key = kGroup     -> GroupCase(f, t)
      [] t.key = kScaler    -> ScalerCase(f, t)
      [] t.key = kIs        -> IsGeneratorCase(f, t)
      [] t.key = kGenerator -> GeneratorCase(f, t)
      [] t.key = kCreator   -> CreatorCase(f, t, user)
      [] t.key = kPipeline  -> PipelineCase(f, t)
      [] OTHER              -> UnknownKeyCase(f, t)

\* is:used / is:orphan taking effect only while used is still unset
IsKeywords_FirstWins(f, t) ==
    IF t.key = kIs /\ f.used = NULL
    THEN LET val == toLowerCase(t.value)
         IN  IF val = kUsed THEN [f EXCEPT !.used = Bool(~t.negated)]
             ELSE IF val = kOrphan THEN [f EXCEPT !.used = Bool(t.negated)]
             ELSE f
    ELSE f

\* "Handle is: keywords": is:used / is:orphan
IsKeywords(f, t) ==
    IF t.key = kIs
    THEN LET val == toLowerCase(t.value)
         IN  IF val = kUsed THEN [f EXCEPT !.used = Bool(~t.negated)]
             ELSE IF val = kOrphan THEN [f EXCEPT !.used = Bool(t.negated)]
             ELSE f
    ELSE f

\* one iteration of the for loop of tokensToFilters
ApplyToken(f, t, user) == IsKeywords(SwitchKey(f, t, user), t)

RECURSIVE FoldTokens(_, _, _, _)
FoldTokens(f, tokens, n, user) ==
    IF n > Len(tokens) THEN f
    ELSE FoldTokens(ApplyToken(f, tokens[n], user), tokens, n + 1, user)

tokensToFilters(tokens, freeText, user) ==
    FoldTokens([DEFAULT_FILTER_STATE EXCEPT !.search = freeText], tokens, 1, user)

----------------------------------------------------------------------------
(* filtersToQueryString and parseQueryString                               *)

\* value.includes(' ') ? `"${value}"` : value
QuoteIfSpace(v) == IF includesSpace(v) THEN <<QUOTE>> \o v \o <<QUOTE>> ELSE v

\* `${prefix}${value}` for every value of one sequence, in order
Parts(prefix, values) == [n \in 1..Len(values) |-> prefix \o values[n]]

\* the same with the value quoted when it contains a space
QuotedParts(prefix, values) ==
    [n \in 1..Len(values) |-> prefix \o QuoteIfSpace(values[n])]

RECURSIVE Join(_)
\* parts.join(' ')
Join(parts) ==
    IF parts = <<>> THEN <<>>
    ELSE IF Len(parts) = 1 THEN parts[1]
    ELSE parts[1] \o <<" ">> \o Join(Tail(parts))

\* the scalers loops push the value as it is
ScalerParts(f) ==
    Parts(<<"s","c","a","l","e","r",":">>, f.scalers) \o Parts(<<"-","s","c","a","l","e","r",":">>, f.excludeScalers)

GeneratorParts(f) ==
    IF f.generator = "true" THEN << <<"i","s",":","g","e","n","e","r","a","t","o","r">> >>
    ELSE IF f.generator = "false" THEN << <<"-","i","s",":","g","e","n","e","r","a","t","o","r">> >>
    ELSE <<>>

UsedParts(f) ==
    IF f.used = "true" THEN << <<"i","s",":","u","s","e","d">> >>
    ELSE IF f.used = "false" THEN << <<"i","s",":","o","r","p","h","a","n">> >>
    ELSE <<>>

\* the parts with is:generator pushed after the creators (next to is:used)
QueryParts_GeneratorAfterCreators(f) ==
    QuotedParts(<<"g","r","o","u","p",":">>, f.groups) \o QuotedParts(<<"-","g","r","o","u","p",":">>, f.excludeGroups)
        \o ScalerParts(f)
        \o QuotedParts(<<"c","r","e","a","t","o","r",":">>, f.creators)
        \o QuotedParts(<<"-","c","r","e","a","t","o","r",":">>, f.excludeCreators)
        \o GeneratorParts(f)
        \o UsedParts(f)
        \o QuotedParts(<<"p","i","p","e","l","i","n","e",":">>, f.pipelines)
        \o QuotedParts(<<"-","p","i","p","e","l","i","n","e",":">>, f.excludePipelines)
        \o (IF f.search # <<>> THEN <<f.search>> ELSE <<>>)

\* the parts array of filtersToQueryString, in push order
QueryParts(f) ==
    QuotedParts(<<"g","r","o","u","p",":">>, f.groups) \o QuotedParts(<<"-","g","r","o","u","p",":">>, f.excludeGroups)
        \o ScalerParts(f)
        \o GeneratorParts(f)
        \o QuotedParts(<<"c","r","e","a","t","o","r",":">>, f.creators)
        \o QuotedParts(<<"-","c","r","e","a","t","o","r",":">>, f.excludeCreators)
        \o UsedParts(f)
        \o QuotedParts(<<"p","i","p","e","l","i","n","e",":">>, f.pipelines)
        \o QuotedParts(<<"-","p","i","p","e","l","i","n","e",":">>, f.excludePipelines)
        \o (IF f.search # <<>> THEN <<f.search>> ELSE <<>>)

filtersToQueryString(f) == Join(QueryParts(f))

parseQueryString(queryString, user) ==
    tokensToFilters(parseInput(queryString), extractFreeText(queryString), user)

----------------------------------------------------------------------------
(* The bounded environment: what the user types and which URL is opened.   *)

\* longest total text (URL query plus input box) that typing may reach
MaxLen == 24

\* userInfo?.username || '' : nobody signed in yet, or alice
Users == {<<>>, <<"a","l","i","c","e">>}

\* the known values of the spec's example: availableGroups = [alpha, beta]
ExampleKnownValues ==
    [groups    |-> <<<<"a","l","p","h","a">>, <<"b","e","t","a">>>>,
     scalers   |-> <<<<"K","8","s">>>>,
     creators  |-> <<>>,
     pipelines |-> <<>>]

\* known values with more groups than the dropdown shows, with spaces and
\* with upper-case letters
ManyKnownValues ==
    [groups    |-> <<<<"A","b">>, <<"a"," ","b">>, <<"g","1">>, <<"g","2">>, <<"g","3">>, <<"g","4">>, <<"g","5">>,
                     <<"g","6">>, <<"g","7">>, <<"g","8">>, <<"g","9">>>>,
     scalers   |-> <<<<"K","8","s">>, <<"B","a","r","e"," ","M","e","t","a","l">>>>,
     creators  |-> <<<<"b","o","b">>, <<"J","a","n","e"," ","D","o","e">>, <<"j","a","m","e","s">>>>,
     pipelines |-> <<<<"p","1">>, <<"p"," ","q">>>>]

\* who uses the Omnibar with which known values
OmnibarProps ==
    {[user |-> <<>>, known |-> ExampleKnownValues],
     [user |-> <<"a","l","i","c","e">>, known |-> ManyKnownValues]}

\* the URL queries the Omnibar page is opened with
OmnibarQueries ==
    {<<>>,
     \* |x pipeline:p1|
     <<"x"," ","p","i","p","e","l","i","n","e",":","p","1">>,
     \* |x -pipeline:p2 -pipeline:p3 pipeline:"p q" pipeline:p1 is:used -creator:"c d" creator:@me -is:generator -scaler:s2 scaler:s1 -group:"g h" group:g1 group:g2|
     <<"x"," ","-","p","i","p","e","l","i","n","e",":","p","2"," ","-","p","i","p","e","l","i","n","e",":","p","3"," ","p","i","p","e","l","i","n","e",":","\"","p"," ","q","\""," ","p","i","p","e","l","i","n","e",":","p","1"," ","i","s",":","u","s","e","d"," ","-","c","r","e","a","t","o","r",":","\"","c"," ","d","\""," ","c","r","e","a","t","o","r",":","@","m","e"," ","-","i","s",":","g","e","n","e","r","a","t","o","r"," ","-","s","c","a","l","e","r",":","s","2"," ","s","c","a","l","e","r",":","s","1"," ","-","g","r","o","u","p",":","\"","g"," ","h","\""," ","g","r","o","u","p",":","g","1"," ","g","r","o","u","p",":","g","2">>}

\* longest text (URL query plus input box) that is entered or that an accepted
\* suggestion may produce; texts are entered and suggestions accepted until the
\* filters are submitted to the URL
MaxInput == 14

\* texts the user enters into the empty input box in one change event
Typed ==
    {
     \* |gr|
     <<"g","r">>,
     \* |-gr|
     <<"-","g","r">>,
     \* |GR|
     <<"G","R">>,
     \* |g|
     <<"g">>,
     \* |--gr|
     <<"-","-","g","r">>,
     \* |zz|
     <<"z","z">>,
     \* |gr x|
     <<"g","r"," ","x">>,
     \* |x  gr  y|
     <<"x"," "," ","g","r"," "," ","y">>,
     \* |a<TAB>gr|
     <<"a","\t","g","r">>,
     \* |group:|
     <<"g","r","o","u","p",":">>,
     \* |-group:|
     <<"-","g","r","o","u","p",":">>,
     \* |group:al|
     <<"g","r","o","u","p",":","a","l">>,
     \* |group:B|
     <<"g","r","o","u","p",":","B">>,
     \* |group:"a|
     <<"g","r","o","u","p",":","\"","a">>,
     \* |group:al  x|
     <<"g","r","o","u","p",":","a","l"," "," ","x">>,
     \* |scaler:|
     <<"s","c","a","l","e","r",":">>,
     \* |-scaler:ba|
     <<"-","s","c","a","l","e","r",":","b","a">>,
     \* |creator:|
     <<"c","r","e","a","t","o","r",":">>,
     \* |creator:@M|
     <<"c","r","e","a","t","o","r",":","@","M">>,
     \* |creator:me|
     <<"c","r","e","a","t","o","r",":","m","e">>,
     \* |creator:e|
     <<"c","r","e","a","t","o","r",":","e">>,
     \* |creator:@me|
     <<"c","r","e","a","t","o","r",":","@","m","e">>,
     \* |-creator:"|
     <<"-","c","r","e","a","t","o","r",":","\"">>,
     \* |creator:b|
     <<"c","r","e","a","t","o","r",":","b">>,
     \* |pipeline:|
     <<"p","i","p","e","l","i","n","e",":">>,
     \* |pipeline:q|
     <<"p","i","p","e","l","i","n","e",":","q">>,
     \* |is:|
     <<"i","s",":">>,
     \* |-IS:E|
     <<"-","I","S",":","E">>,
     \* |is:x|
     <<"i","s",":","x">>,
     \* |generator:|
     <<"g","e","n","e","r","a","t","o","r",":">>,
     \* |generator:Y|
     <<"g","e","n","e","r","a","t","o","r",":","Y">>,
     \* |generator:o|
     <<"g","e","n","e","r","a","t","o","r",":","o">>,
     \* |foo:|
     <<"f","o","o",":">>,
     \* |:x|
     <<":","x">>
    }

\* pieces of text the user adds to the input box in one change event
Chunks ==
    {
     \* |group:a |
     <<"g","r","o","u","p",":","a"," ">>,
     \* |-group:a |
     <<"-","g","r","o","u","p",":","a"," ">>,
     \* |Group:Ab |
     <<"G","r","o","u","p",":","A","b"," ">>,
     \* |group:"a b" |
     <<"g","r","o","u","p",":","\"","a"," ","b","\""," ">>,
     \* |-group:"a b" |
     <<"-","g","r","o","u","p",":","\"","a"," ","b","\""," ">>,
     \* |group:"" |
     <<"g","r","o","u","p",":","\"","\""," ">>,
     \* |group:"abc |
     <<"g","r","o","u","p",":","\"","a","b","c"," ">>,
     \* |group:" |
     <<"g","r","o","u","p",":","\""," ">>,
     \* |scaler:K8s |
     <<"s","c","a","l","e","r",":","K","8","s"," ">>,
     \* |-scaler:K8s |
     <<"-","s","c","a","l","e","r",":","K","8","s"," ">>,
     \* |scaler:"a b" |
     <<"s","c","a","l","e","r",":","\"","a"," ","b","\""," ">>,
     \* |-scaler:"a b" |
     <<"-","s","c","a","l","e","r",":","\"","a"," ","b","\""," ">>,
     \* |creator:@me |
     <<"c","r","e","a","t","o","r",":","@","m","e"," ">>,
     \* |-creator:@me |
     <<"-","c","r","e","a","t","o","r",":","@","m","e"," ">>,
     \* |creator:bob |
     <<"c","r","e","a","t","o","r",":","b","o","b"," ">>,
     \* |-creator:"a b" |
     <<"-","c","r","e","a","t","o","r",":","\"","a"," ","b","\""," ">>,
     \* |pipeline:p1 |
     <<"p","i","p","e","l","i","n","e",":","p","1"," ">>,
     \* |-pipeline:p1 |
     <<"-","p","i","p","e","l","i","n","e",":","p","1"," ">>,
     \* |pipeline:"a b" |
     <<"p","i","p","e","l","i","n","e",":","\"","a"," ","b","\""," ">>,
     \* |-pipeline:"a b" |
     <<"-","p","i","p","e","l","i","n","e",":","\"","a"," ","b","\""," ">>,
     \* |is:generator |
     <<"i","s",":","g","e","n","e","r","a","t","o","r"," ">>,
     \* |-is:generator |
     <<"-","i","s",":","g","e","n","e","r","a","t","o","r"," ">>,
     \* |is:used |
     <<"i","s",":","u","s","e","d"," ">>,
     \* |-is:used |
     <<"-","i","s",":","u","s","e","d"," ">>,
     \* |is:orphan |
     <<"i","s",":","o","r","p","h","a","n"," ">>,
     \* |-is:orphan |
     <<"-","i","s",":","o","r","p","h","a","n"," ">>,
     \* |is:foo |
     <<"i","s",":","f","o","o"," ">>,
     \* |Is:Used |
     <<"I","s",":","U","s","e","d"," ">>,
     \* |generator:yes |
     <<"g","e","n","e","r","a","t","o","r",":","y","e","s"," ">>,
     \* |-generator:yes |
     <<"-","g","e","n","e","r","a","t","o","r",":","y","e","s"," ">>,
     \* |generator:no |
     <<"g","e","n","e","r","a","t","o","r",":","n","o"," ">>,
     \* |-generator:no |
     <<"-","g","e","n","e","r","a","t","o","r",":","n","o"," ">>,
     \* |generator:TRUE |
     <<"g","e","n","e","r","a","t","o","r",":","T","R","U","E"," ">>,
     \* |generator:0 |
     <<"g","e","n","e","r","a","t","o","r",":","0"," ">>,
     \* |-generator:1 |
     <<"-","g","e","n","e","r","a","t","o","r",":","1"," ">>,
     \* |generator:maybe |
     <<"g","e","n","e","r","a","t","o","r",":","m","a","y","b","e"," ">>,
     \* |foo:bar |
     <<"f","o","o",":","b","a","r"," ">>,
     \* | free text|
     <<" ","f","r","e","e"," ","t","e","x","t">>,
     \* |  x<TAB> y |
     <<" "," ","x","\t"," ","y"," ">>,
     \* | x-a:"b":y|
     <<" ","x","-","a",":","\"","b","\"",":","y">>}

\* the q parameter of the URL the page is opened with (<<>> : none); the
\* examples of the specification and one query that fills every field
InitialQueries ==
    {<<>>,
     \* |group:alpha -group:beta is:generator free text|
     <<"g","r","o","u","p",":","a","l","p","h","a"," ","-","g","r","o","u","p",":","b","e","t","a"," ","i","s",":","g","e","n","e","r","a","t","o","r"," ","f","r","e","e"," ","t","e","x","t">>,
     \* |creator:"Jane Doe"|
     <<"c","r","e","a","t","o","r",":","\"","J","a","n","e"," ","D","o","e","\"">>,
     \* |creator:@me|
     <<"c","r","e","a","t","o","r",":","@","m","e">>,
     \* |x -pipeline:p2 pipeline:"p q" is:used -creator:"c d" creator:@me -is:generator -scaler:s2 scaler:s1 -group:"g h" group:g1|
     <<"x"," ","-","p","i","p","e","l","i","n","e",":","p","2"," ","p","i","p","e","l","i","n","e",":","\"","p"," ","q","\""," ","i","s",":","u","s","e","d"," ","-","c","r","e","a","t","o","r",":","\"","c"," ","d","\""," ","c","r","e","a","t","o","r",":","@","m","e"," ","-","i","s",":","g","e","n","e","r","a","t","o","r"," ","-","s","c","a","l","e","r",":","s","2"," ","s","c","a","l","e","r",":","s","1"," ","-","g","r","o","u","p",":","\"","g"," ","h","\""," ","g","r","o","u","p",":","g","1">>}

----------------------------------------------------------------------------
(* getCurrentToken, getSuggestions and applySuggestion                     *)

Min(a, b) == IF a <= b THEN a ELSE b

\* String.prototype.slice(start, end) with 0 <= start and 0 <= end
slice(s, start, end) == SubSeq(s, Min(start, Len(s)) + 1, Min(end, Len(s)))

\* String.prototype.slice(start)
sliceFrom(s, start) == slice(s, start, Len(s))

\* String.prototype.indexOf(c) : 0-based, -1 when c does not occur
indexOf(s, c) ==
    IF \E i \in 1..Len(s) : s[i] = c
    THEN (CHOOSE i \in 1..Len(s) : s[i] = c /\ \A j \in 1..(i - 1) : s[j] # c) - 1
    ELSE -1

\* String.prototype.lastIndexOf(c) : 0-based, -1 when c does not occur
lastIndexOf(s, c) ==
    IF \E i \in 1..Len(s) : s[i] = c
    THEN (CHOOSE i \in 1..Len(s) : s[i] = c /\ \A j \in (i + 1)..Len(s) : s[j] # c) - 1
    ELSE -1

\* String.prototype.startsWith
startsWith(s, prefix) ==
    Len(prefix) <= Len(s) /\ SubSeq(s, 1, Len(prefix)) = prefix

\* String.prototype.includes
includes(s, part) ==
    \E i \in 0..(Len(s) - Len(part)) : SubSeq(s, i + 1, i + Len(part)) = part

\* what the user is typing: the word between the last ' ' before the cursor
\* and the cursor (key is <<>> where the code leaves it undefined)
getCurrentToken(input, cursorPos) ==
    LET textBeforeCursor    == slice(input, 0, cursorPos)
        lastSpaceIndex      == lastIndexOf(textBeforeCursor, " ")
        currentWord         == sliceFrom(textBeforeCursor, lastSpaceIndex + 1)
        isNegated           == startsWith(currentWord, <<"-">>)
        wordWithoutNegation == IF isNegated THEN sliceFrom(currentWord, 1) ELSE currentWord
        colonIndex          == indexOf(wordWithoutNegation, ":")
    IN  IF colonIndex # -1
        THEN [partial   |-> sliceFrom(wordWithoutNegation, colonIndex + 1),
              isKey     |-> FALSE,
              key       |-> toLowerCase(slice(wordWithoutNegation, 0, colonIndex)),
              isNegated |-> isNegated]
        ELSE [partial   |-> wordWithoutNegation,
              isKey     |-> TRUE,
              key       |-> <<>>,
              isNegated |-> isNegated]

\* FILTER_KEYS = ['group', 'scaler', 'creator', 'pipeline', 'is']
FILTER_KEYS == <<kGroup, kScaler, kCreator, kPipeline, kIs>>

\* the keys with generator among them
FILTER_KEYS_WithGenerator == <<kGroup, kScaler, kCreator, kPipeline, kIs, kGenerator>>

\* `${context.isNegated ? '-' : ''}`
NegationPrefix(context) == IF context.isNegated THEN <<"-">> ELSE <<>>

\* the entries of list that pass the filter of a case, in list order
Matching(list, partialLower) ==
    LET Passes(v) == includes(toLowerCase(v), partialLower) \/ partialLower = <<>>
    IN  SelectSeq(list, Passes)

\* one value suggestion {type: 'value', key, value, display}
ValueSuggestion(context, key, value, display) ==
    [type    |-> "value",
     key     |-> key,
     value   |-> NegationPrefix(context) \o key \o <<":">> \o value,
     display |-> display]

\* the key branch: one key suggestion per matching key of the given keys
KeySuggestionsOf(context, keys) ==
    LET partialLower == toLowerCase(context.partial)
        Passes(key)  == startsWith(key, partialLower) \/ partialLower = <<>>
        matched      == SelectSeq(keys, Passes)
    IN  [n \in 1..Len(matched) |->
            [type    |-> "key",
             key     |-> <<>>,
             value   |-> NegationPrefix(context) \o matched[n] \o <<":">>,
             display |-> NegationPrefix(context) \o matched[n] \o <<":">>]]

\* the key branch offering generator too
KeySuggestions_WithGenerator(context) ==
    KeySuggestionsOf(context, FILTER_KEYS_WithGenerator)

\* if (context.isKey) : for (const key of FILTER_KEYS)
KeySuggestions(context) == KeySuggestionsOf(context, FILTER_KEYS)

\* context.partial.toLowerCase().replace(/^"/, '')
PartialLower(context) ==
    LET lower == toLowerCase(context.partial)
    IN  IF startsWith(lower, <<QUOTE>>) THEN sliceFrom(lower, 1) ELSE lower

\* the loops of the cases that quote a value containing a space
QuotedValueSuggestions(context, key, list) ==
    LET matched == Matching(list, PartialLower(context))
    IN  [n \in 1..Len(matched) |->
            ValueSuggestion(context, key, QuoteIfSpace(matched[n]), matched[n])]

\* the loops of the cases that insert the value as it is
PlainValueSuggestions(context, key, list) ==
    LET matched == Matching(list, PartialLower(context))
    IN  [n \in 1..Len(matched) |->
            ValueSuggestion(context, key, matched[n], matched[n])]

\* case 'group'
GroupSuggestions(context) == QuotedValueSuggestions(context, kGroup, availableGroups)

\* case 'scaler' : the value is inserted as it is
ScalerSuggestions(context) == PlainValueSuggestions(context, kScaler, availableScalers)

\* case 'is' with a fourth option
IsSuggestions_ExtraOption(context) ==
    PlainValueSuggestions(context, kIs, <<kGenerator, kUsed, kOrphan, <<"u","n","u","s","e","d">>>>)

\* case 'is' : isOptions = ['generator', 'used', 'orphan']
IsSuggestions(context) ==
    PlainValueSuggestions(context, kIs, <<kGenerator, kUsed, kOrphan>>)

\* the @me shorthand offered only for a partial that @me starts with
MeSuggestion_PrefixOnly(context) ==
    IF currentUser # <<>> /\ startsWith(kAtMe, PartialLower(context))
    THEN << [type    |-> "value",
             key     |-> kCreator,
             value   |-> NegationPrefix(context) \o kCreator \o <<":">> \o kAtMe,
             display |-> kAtMe \o <<" ","(">> \o currentUser \o <<")">>] >>
    ELSE <<>>

\* case 'creator' : "Add @me shorthand first if it matches"
MeSuggestion(context) ==
    IF currentUser # <<>>
       /\ (includes(kAtMe, PartialLower(context)) \/ PartialLower(context) = <<>>)
    THEN << [type    |-> "value",
             key     |-> kCreator,
             value   |-> NegationPrefix(context) \o kCreator \o <<":">> \o kAtMe,
             display |-> kAtMe \o <<" ","(">> \o currentUser \o <<")">>] >>
    ELSE <<>>

\* case 'creator'
CreatorSuggestions(context) ==
    MeSuggestion(context) \o QuotedValueSuggestions(context, kCreator, availableCreators)

\* case 'pipeline'
PipelineSuggestions(context) ==
    QuotedValueSuggestions(context, kPipeline, availablePipelines)

\* case 'generator' : boolValues = ['yes', 'no']
GeneratorSuggestions(context) ==
    PlainValueSuggestions(context, kGenerator, <<<<"y","e","s">>, <<"n","o">>>>)

\* else if (context.key) : switch (context.key)
ValueSuggestions(context) ==
    CASE context.key = kGroup     -> GroupSuggestions(context)
      [] context.key = kScaler    -> ScalerSuggestions(context)
      [] context.key = kIs        -> IsSuggestions(context)
      [] context.key = kCreator   -> CreatorSuggestions(context)
      [] context.key = kPipeline  -> PipelineSuggestions(context)
      [] context.key = kGenerator -> GeneratorSuggestions(context)
      [] OTHER                    -> <<>>

\* the suggestions array before the final slice
AllSuggestions(input, cursorPos) ==
    LET context == getCurrentToken(input, cursorPos)
    IN  IF context.isKey THEN KeySuggestions(context)
        ELSE IF context.key # <<>> THEN ValueSuggestions(context)
        ELSE <<>>

\* suggestions.slice(0, 10)
SuggestionLimit == 10

\* every suggestion returned, however many
getSuggestions_Uncapped(input, cursorPos) == AllSuggestions(input, cursorPos)

getSuggestions(input, cursorPos) ==
    slice(AllSuggestions(input, cursorPos), 0, SuggestionLimit)

applySuggestion(input, cursorPos, suggestion) ==
    LET textBeforeCursor == slice(input, 0, cursorPos)
        textAfterCursor  == sliceFrom(input, cursorPos)
        lastSpaceIndex   == lastIndexOf(textBeforeCursor, " ")
        beforeWord       == slice(textBeforeCursor, 0, lastSpaceIndex + 1)
    IN  beforeWord \o suggestion.value
            \o (IF suggestion.type = "value" THEN <<" ">> ELSE <<>>)
            \o TrimStart(textAfterCursor)

----------------------------------------------------------------------------
(* The state of each component as it is constructed                        *)

\* an object without keys: {}
EmptyObject == [k \in {} |-> <<>>]

\* the module-level DEFAULT_FILTER_STATE object: its eight [] literals are
\* the arrays 1 to 8, and the object is the object 1
DefaultArrays == [n \in 1..8 |-> <<>>]

DefaultObject ==
    [search           |-> <<>>,
     groups           |-> 1,
     excludeGroups    |-> 2,
     scalers          |-> 3,
     excludeScalers   |-> 4,
     generator        |-> NULL,
     creators         |-> 5,
     excludeCreators  |-> 6,
     used             |-> NULL,
     pipelines        |-> 7,
     excludePipelines |-> 8]

\* Images: useState(DEFAULT_FILTER_STATE) holds the default object itself
HeapInit ==
    /\ arrays = DefaultArrays
    /\ objects = <<DefaultObject>>
    /\ current = 1

\* commitTagUpdates is not running: no request awaited, no error seen, and
\* no pendingTags/deletedTags captured by a running call
NotCommitting ==
    [pc |-> "idle", error |-> FALSE,
     deletedTags |-> EmptyObject, pendingTags |-> EmptyObject]

\* EditableRepoTags: the useState initial values, for the tags t of the repo
TagEditorInit(t) ==
    /\ tags = t
    /\ editing = FALSE
    /\ pendingTags = EmptyObject
    /\ deletedTags = EmptyObject
    /\ invalidPendingTags = <<>>
    /\ selectedGeneralTags = <<>>
    /\ selectedTlpTags = <<>>
    /\ showUpdateModal = FALSE
    /\ numberOfChanges = 0
    /\ commit = NotCommitting
    /\ requests = <<>>

\* Commits: the useState initial values
CommitsInit ==
    /\ showCommits = TRUE
    /\ showBranches = TRUE
    /\ showTags = TRUE
    /\ commitishList = <<>>
    /\ cursor = <<>>
    /\ hasMore = FALSE
    /\ loading = FALSE
    /\ fetches = <<>>

\* the components other than the Images page, as constructed
ElsewhereInit == HeapInit /\ TagEditorInit(EmptyObject) /\ CommitsInit

----------------------------------------------------------------------------

(* The Images page and its Omnibar                                         *)

\* Omnibar: the props holding the known values
Known(known) ==
    /\ availableGroups = known.groups
    /\ availableScalers = known.scalers
    /\ availableCreators = known.creators
    /\ availablePipelines = known.pipelines

\* Images: useState(DEFAULT_FILTER_STATE); Omnibar: useState(''),
\* useState(false), useState(0), the caret of the empty input box
InitState ==
    /\ inputValue = <<>>
    /\ filters = DEFAULT_FILTER_STATE
    /\ mounted = FALSE
    /\ showSuggestions = FALSE
    /\ selectedSuggestionIndex = 0
    /\ selectionStart = 0

Init ==
    /\ InitState
    /\ ElsewhereInit
    /\ currentUser \in Users
    /\ q \in InitialQueries
    /\ Known(ExampleKnownValues)

\* Images: useEffect(() => { const q = searchParams.get('q'); if (q) { ... } })
InitializeFromUrl ==
    /\ ~mounted
    /\ mounted' = TRUE
    /\ filters' = IF q # <<>> THEN parseQueryString(q, currentUser) ELSE filters
    /\ UNCHANGED <<inputValue, q, showSuggestions, selectedSuggestionIndex,
                   selectionStart, props, elsewhere>>

\* parseAndUpdateFilters that publishes the tokens without the free text
parseAndUpdateFilters_NoFreeText(input) ==
    tokensToFilters(parseInput(input), <<>>, currentUser)

\* Omnibar: parseAndUpdateFilters(input), with tokensToFilters bound to currentUser
parseAndUpdateFilters(input) ==
    tokensToFilters(parseInput(input), extractFreeText(input), currentUser)

\* Omnibar: handleInputChange, the new value being the old one plus a chunk
\* typed at its end, where the caret then stands
handleInputChange(chunk) ==
    /\ mounted
    /\ Len(q) + Len(inputValue) + Len(chunk) <= MaxLen
    /\ inputValue' = inputValue \o chunk
    /\ showSuggestions' = TRUE
    /\ selectedSuggestionIndex' = 0
    /\ filters' = parseAndUpdateFilters(inputValue \o chunk)
    /\ selectionStart' = Len(inputValue \o chunk)
    /\ UNCHANGED <<q, mounted, props, elsewhere>>

\* handleFilterSubmit that always removes q from the URL
handleFilterSubmit_RemoveQ ==
    /\ mounted
    /\ showSuggestions' = FALSE
    /\ q' = <<>>
    /\ UNCHANGED <<inputValue, filters, mounted, selectedSuggestionIndex,
                   selectionStart, props, elsewhere>>

\* Omnibar: handleKeyDown 'Enter' with no suggestion to apply (the dropdown
\* closed), then Images: handleFilterSubmit stores the query string as q
handleFilterSubmit ==
    /\ mounted
    /\ showSuggestions' = FALSE
    /\ q' = filtersToQueryString(filters)
    /\ UNCHANGED <<inputValue, filters, mounted, selectedSuggestionIndex,
                   selectionStart, props, elsewhere>>

Next ==
    \/ InitializeFromUrl
    \/ \E chunk \in Chunks : handleInputChange(chunk)
    \/ handleFilterSubmit

Spec == Init /\ [][Next]_vars

----------------------------------------------------------------------------
(* The Omnibar with its suggestion dropdown and its keyboard               *)

\* inputRef.current?.selectionStart || inputValue.length
cursorPos == IF selectionStart = 0 THEN Len(inputValue) ELSE selectionStart

\* const suggestions = getSuggestions(inputValue, cursorPos)
suggestions == getSuggestions(inputValue, cursorPos)

hasActiveFilters ==
    \/ filters.search # <<>>
    \/ Len(filters.groups) > 0
    \/ Len(filters.excludeGroups) > 0
    \/ Len(filters.scalers) > 0
    \/ Len(filters.excludeScalers) > 0
    \/ filters.generator # NULL
    \/ Len(filters.creators) > 0
    \/ Len(filters.excludeCreators) > 0
    \/ filters.used # NULL
    \/ Len(filters.pipelines) > 0
    \/ Len(filters.excludePipelines) > 0

\* every element dropped instead of the last one
DropLast_All(a) == <<>>

\* Array.prototype.slice(0, -1)
DropLast(a) == SubSeq(a, 1, Len(a) - 1)

\* removeLastFilter with generator cleared before used
removeLastFilter_GeneratorFirst(f) ==
    IF f.search # <<>> THEN [f EXCEPT !.search = <<>>]
    ELSE IF f.generator # NULL THEN [f EXCEPT !.generator = NULL]
    ELSE IF f.used # NULL THEN [f EXCEPT !.used = NULL]
    ELSE IF Len(f.excludePipelines) > 0
        THEN [f EXCEPT !.excludePipelines = DropLast(f.excludePipelines)]
    ELSE IF Len(f.pipelines) > 0 THEN [f EXCEPT !.pipelines = DropLast(f.pipelines)]
    ELSE IF Len(f.excludeCreators) > 0
        THEN [f EXCEPT !.excludeCreators = DropLast(f.excludeCreators)]
    ELSE IF Len(f.creators) > 0 THEN [f EXCEPT !.creators = DropLast(f.creators)]
    ELSE IF Len(f.excludeScalers) > 0
        THEN [f EXCEPT !.excludeScalers = DropLast(f.excludeScalers)]
    ELSE IF Len(f.scalers) > 0 THEN [f EXCEPT !.scalers = DropLast(f.scalers)]
    ELSE IF Len(f.excludeGroups) > 0
        THEN [f EXCEPT !.excludeGroups = DropLast(f.excludeGroups)]
    ELSE IF Len(f.groups) > 0 THEN [f EXCEPT !.groups = DropLast(f.groups)]
    ELSE f

\* removeLastFilter: the FilterState it hands to onChange
removeLastFilter(f) ==
    IF f.search # <<>> THEN [f EXCEPT !.search = <<>>]
    ELSE IF f.used # NULL THEN [f EXCEPT !.used = NULL]
    ELSE IF f.generator # NULL THEN [f EXCEPT !.generator = NULL]
    ELSE IF Len(f.excludePipelines) > 0
        THEN [f EXCEPT !.excludePipelines = DropLast(f.excludePipelines)]
    ELSE IF Len(f.pipelines) > 0 THEN [f EXCEPT !.pipelines = DropLast(f.pipelines)]
    ELSE IF Len(f.excludeCreators) > 0
        THEN [f EXCEPT !.excludeCreators = DropLast(f.excludeCreators)]
    ELSE IF Len(f.creators) > 0 THEN [f EXCEPT !.creators = DropLast(f.creators)]
    ELSE IF Len(f.excludeScalers) > 0
        THEN [f EXCEPT !.excludeScalers = DropLast(f.excludeScalers)]
    ELSE IF Len(f.scalers) > 0 THEN [f EXCEPT !.scalers = DropLast(f.scalers)]
    ELSE IF Len(f.excludeGroups) > 0
        THEN [f EXCEPT !.excludeGroups = DropLast(f.excludeGroups)]
    ELSE IF Len(f.groups) > 0 THEN [f EXCEPT !.groups = DropLast(f.groups)]
    ELSE f

\* the user puts the caret of the input box at pos
select(pos) ==
    /\ mounted
    /\ pos # selectionStart
    /\ selectionStart' = pos
    /\ UNCHANGED <<inputValue, filters, q, mounted, showSuggestions,
                   selectedSuggestionIndex, props, elsewhere>>

\* handleSelectSuggestion leaving the dropdown open whatever was accepted
handleSelectSuggestion_KeepOpen(suggestion) ==
    LET newInput == applySuggestion(inputValue, cursorPos, suggestion)
    IN  /\ q \in OmnibarQueries /\ Len(q) + Len(newInput) <= MaxInput
        /\ inputValue' = newInput
        /\ showSuggestions' = TRUE
        /\ selectedSuggestionIndex' = 0
        /\ filters' = parseAndUpdateFilters(newInput)
        /\ selectionStart' = Len(newInput)
        /\ UNCHANGED <<q, mounted, props, elsewhere>>

\* handleSelectSuggestion, with its timer that moves the caret to the end of
\* the new input
handleSelectSuggestion(suggestion) ==
    LET newInput == applySuggestion(inputValue, cursorPos, suggestion)
    IN  /\ q \in OmnibarQueries /\ Len(q) + Len(newInput) <= MaxInput
        /\ inputValue' = newInput
        /\ showSuggestions' = (suggestion.type = "key")
        /\ selectedSuggestionIndex' = 0
        /\ filters' = parseAndUpdateFilters(newInput)
        /\ selectionStart' = Len(newInput)
        /\ UNCHANGED <<q, mounted, props, elsewhere>>

\* OmnibarSuggestions: onClick={() => onSelect(suggestion)} of a visible row
clickSuggestion ==
    /\ mounted
    /\ showSuggestions /\ Len(suggestions) > 0
    /\ \E n \in 1..Len(suggestions) : handleSelectSuggestion(suggestions[n])

\* showSuggestions && suggestions.length > 0 && suggestions[selectedSuggestionIndex]
canApplySelected ==
    /\ showSuggestions
    /\ Len(suggestions) > 0
    /\ selectedSuggestionIndex < Len(suggestions)

\* handleKeyDown: case 'ArrowDown'
KeyArrowDown ==
    /\ mounted
    /\ IF showSuggestions /\ Len(suggestions) > 0
       THEN /\ selectedSuggestionIndex' =
                   (selectedSuggestionIndex + 1) % Len(suggestions)
            /\ UNCHANGED showSuggestions
       ELSE /\ showSuggestions' = TRUE
            /\ UNCHANGED selectedSuggestionIndex
    /\ UNCHANGED <<inputValue, filters, q, mounted, selectionStart, props, elsewhere>>

\* handleKeyDown: case 'ArrowUp'
KeyArrowUp ==
    /\ mounted
    /\ showSuggestions /\ Len(suggestions) > 0
    /\ selectedSuggestionIndex' =
           (selectedSuggestionIndex - 1 + Len(suggestions)) % Len(suggestions)
    /\ UNCHANGED <<inputValue, filters, q, mounted, showSuggestions,
                   selectionStart, props, elsewhere>>

\* handleKeyDown: case 'Tab'
KeyTab ==
    /\ mounted
    /\ canApplySelected
    /\ handleSelectSuggestion(suggestions[selectedSuggestionIndex + 1])

\* handleKeyDown: case 'Enter'
KeyEnter ==
    \/ /\ mounted
       /\ canApplySelected
       /\ handleSelectSuggestion(suggestions[selectedSuggestionIndex + 1])
    \/ /\ ~canApplySelected
       /\ handleFilterSubmit

\* handleKeyDown: case 'Escape'
KeyEscape ==
    /\ mounted
    /\ showSuggestions' = FALSE
    /\ UNCHANGED <<inputValue, filters, q, mounted, selectedSuggestionIndex,
                   selectionStart, props, elsewhere>>

\* handleKeyDown: case 'Backspace' on the empty input box
KeyBackspace ==
    /\ mounted
    /\ inputValue = <<>> /\ hasActiveFilters
    /\ filters' = removeLastFilter(filters)
    /\ UNCHANGED <<inputValue, q, mounted, showSuggestions,
                   selectedSuggestionIndex, selectionStart, props, elsewhere>>

\* clearAll, the button shown when there is a filter or some input
clearAll ==
    /\ mounted
    /\ hasActiveFilters \/ inputValue # <<>>
    /\ inputValue' = <<>>
    /\ filters' = DEFAULT_FILTER_STATE
    /\ selectionStart' = 0
    /\ UNCHANGED <<q, mounted, showSuggestions, selectedSuggestionIndex, props, elsewhere>>

handleFocus ==
    /\ mounted
    /\ showSuggestions' = TRUE
    /\ UNCHANGED <<inputValue, filters, q, mounted, selectedSuggestionIndex,
                   selectionStart, props, elsewhere>>

\* handleBlur: its timer hides the dropdown
handleBlur ==
    /\ mounted
    /\ showSuggestions' = FALSE
    /\ UNCHANGED <<inputValue, filters, q, mounted, selectedSuggestionIndex,
                   selectionStart, props, elsewhere>>

OmnibarInit ==
    /\ InitState
    /\ ElsewhereInit
    /\ q \in OmnibarQueries
    /\ \E p \in OmnibarProps : currentUser = p.user /\ Known(p.known)

OmnibarNext ==
    \/ InitializeFromUrl
    \/ \E text \in Typed :
          /\ inputValue = <<>>
          /\ q \in OmnibarQueries
          /\ Len(q) + Len(text) <= MaxInput
          /\ handleInputChange(text)
    \/ \E pos \in 0..Len(inputValue) :
          /\ inputValue \in Typed
          /\ q \in OmnibarQueries
          /\ select(pos)
    \/ clickSuggestion
    \/ KeyArrowDown
    \/ KeyArrowUp
    \/ KeyTab
    \/ KeyEnter
    \/ KeyEscape
    \/ KeyBackspace
    \/ clearAll
    \/ handleFocus
    \/ handleBlur

OmnibarSpec == OmnibarInit /\ [][OmnibarNext]_vars

----------------------------------------------------------------------------
(* The Images page: the images it lists and the badges of its Omnibar      *)

\* an optional value: undefined, or the value v
None == <<>>
Some(v) == <<v>>
Defined(o) == o # None

\* Array.prototype.includes
arrayIncludes(a, v) == \E n \in 1..Len(a) : a[n] = v

\* Array.prototype.filter((x) => x !== value)
without(a, value) ==
    LET Other(x) == x # value
    IN  SelectSeq(a, Other)

\* the images fetched by the page: each with or without a name and a
\* description, in one of three groups, with a generator flag that may be
\* missing and a used_by list that may be missing or empty
images ==
    [name        : {None, Some(<<"F","i","r","e"," ","F","o","x">>)},
     description : {None, Some(<<"a","n"," ","A","L","P","H","A"," ","b","u","i","l","d">>)},
     group       : {<<"g","1">>, <<"g","2">>, <<"g","3">>},
     scaler      : {<<"s","1">>, <<"s","2">>},
     creator     : {<<"a","l","i","c","e">>, <<"b","o","b">>},
     generator   : {Bool(TRUE), Bool(FALSE), "undefined"},
     used_by     : {None, Some(<<>>), Some(<<<<"p","1">>>>), Some(<<<<"p","2">>, <<"p","3">>>>)}]

\* image.name?.toLowerCase().includes(searchLower)
optionalIncludes(text, searchLower) ==
    Defined(text) /\ includes(toLowerCase(text[1]), searchLower)

\* filteredImages keeping every image of a set pipeline filter
imageFilter_ExcludedPipelinesListed(image, f) ==
    LET isUsed          == Defined(image.used_by) /\ Len(image.used_by[1]) > 0
        usedByPipelines == IF Defined(image.used_by) THEN image.used_by[1] ELSE <<>>
    IN  /\ f.search # <<>> =>
               \/ optionalIncludes(image.name, toLowerCase(f.search))
               \/ optionalIncludes(image.description, toLowerCase(f.search))
        /\ ~(Len(f.groups) > 0 /\ ~arrayIncludes(f.groups, image.group))
        /\ ~(Len(f.excludeGroups) > 0 /\ arrayIncludes(f.excludeGroups, image.group))
        /\ ~(Len(f.scalers) > 0 /\ ~arrayIncludes(f.scalers, image.scaler))
        /\ ~(Len(f.excludeScalers) > 0 /\ arrayIncludes(f.excludeScalers, image.scaler))
        /\ ~(f.generator # NULL /\ image.generator # f.generator)
        /\ ~(Len(f.creators) > 0 /\ ~arrayIncludes(f.creators, image.creator))
        /\ ~(Len(f.excludeCreators) > 0 /\ arrayIncludes(f.excludeCreators, image.creator))
        /\ f.used # NULL =>
               /\ ~(f.used = Bool(TRUE) /\ ~isUsed)
               /\ ~(f.used = Bool(FALSE) /\ isUsed)
        /\ Len(f.pipelines) > 0 =>
               \E n \in 1..Len(f.pipelines) : arrayIncludes(usedByPipelines, f.pipelines[n])

\* filteredImages: the callback of images.filter
imageFilter(image, f) ==
    LET isUsed          == Defined(image.used_by) /\ Len(image.used_by[1]) > 0
        usedByPipelines == IF Defined(image.used_by) THEN image.used_by[1] ELSE <<>>
    IN  /\ f.search # <<>> =>
               \/ optionalIncludes(image.name, toLowerCase(f.search))
               \/ optionalIncludes(image.description, toLowerCase(f.search))
        /\ ~(Len(f.groups) > 0 /\ ~arrayIncludes(f.groups, image.group))
        /\ ~(Len(f.excludeGroups) > 0 /\ arrayIncludes(f.excludeGroups, image.group))
        /\ ~(Len(f.scalers) > 0 /\ ~arrayIncludes(f.scalers, image.scaler))
        /\ ~(Len(f.excludeScalers) > 0 /\ arrayIncludes(f.excludeScalers, image.scaler))
        /\ ~(f.generator # NULL /\ image.generator # f.generator)
        /\ ~(Len(f.creators) > 0 /\ ~arrayIncludes(f.creators, image.creator))
        /\ ~(Len(f.excludeCreators) > 0 /\ arrayIncludes(f.excludeCreators, image.creator))
        /\ f.used # NULL =>
               /\ ~(f.used = Bool(TRUE) /\ ~isUsed)
               /\ ~(f.used = Bool(FALSE) /\ isUsed)
        /\ Len(f.pipelines) > 0 =>
               \E n \in 1..Len(f.pipelines) : arrayIncludes(usedByPipelines, f.pipelines[n])
        /\ Len(f.excludePipelines) > 0 =>
               ~\E n \in 1..Len(f.excludePipelines) :
                     arrayIncludes(usedByPipelines, f.excludePipelines[n])

\* const filteredImages = useMemo(() => images.filter(...), [images, filters])
filteredImages == {image \in images : imageFilter(image, filters)}

\* removeFilter that removes the first occurrence only
removeFilter_FirstOnly(f, type, value, negated) ==
    LET First(a) == CHOOSE n \in 1..Len(a) : a[n] = value /\ \A m \in 1..(n - 1) : a[m] # value
        Drop(a)  == IF arrayIncludes(a, value)
                    THEN SubSeq(a, 1, First(a) - 1) \o SubSeq(a, First(a) + 1, Len(a))
                    ELSE a
    IN  CASE type = "group" ->
                 IF negated THEN [f EXCEPT !.excludeGroups = Drop(@)]
                            ELSE [f EXCEPT !.groups = Drop(@)]
          [] type = "scaler" ->
                 IF negated THEN [f EXCEPT !.excludeScalers = Drop(@)]
                            ELSE [f EXCEPT !.scalers = Drop(@)]
          [] type = "generator" -> [f EXCEPT !.generator = NULL]
          [] type = "creator" ->
                 IF negated THEN [f EXCEPT !.excludeCreators = Drop(@)]
                            ELSE [f EXCEPT !.creators = Drop(@)]
          [] type = "used" -> [f EXCEPT !.used = NULL]
          [] type = "pipeline" ->
                 IF negated THEN [f EXCEPT !.excludePipelines = Drop(@)]
                            ELSE [f EXCEPT !.pipelines = Drop(@)]
          [] type = "search" -> [f EXCEPT !.search = <<>>]

\* Omnibar: removeFilter(type, value, negated), the FilterState it publishes
removeFilter(f, type, value, negated) ==
    CASE type = "group" ->
             IF negated THEN [f EXCEPT !.excludeGroups = without(@, value)]
                        ELSE [f EXCEPT !.groups = without(@, value)]
      [] type = "scaler" ->
             IF negated THEN [f EXCEPT !.excludeScalers = without(@, value)]
                        ELSE [f EXCEPT !.scalers = without(@, value)]
      [] type = "generator" -> [f EXCEPT !.generator = NULL]
      [] type = "creator" ->
             IF negated THEN [f EXCEPT !.excludeCreators = without(@, value)]
                        ELSE [f EXCEPT !.creators = without(@, value)]
      [] type = "used" -> [f EXCEPT !.used = NULL]
      [] type = "pipeline" ->
             IF negated THEN [f EXCEPT !.excludePipelines = without(@, value)]
                        ELSE [f EXCEPT !.pipelines = without(@, value)]
      [] type = "search" -> [f EXCEPT !.search = <<>>]

\* the onRemove of one badge: the arguments it hands to removeFilter
Badge(type, value, negated) == [type |-> type, value |-> value, negated |-> negated]

\* the badges of a sequence field
SeqBadges(type, a, negated) == {Badge(type, a[n], negated) : n \in 1..Len(a)}

\* BadgesContainer: the badges shown for the published filters
Badges ==
    SeqBadges("group", filters.groups, FALSE)
      \cup SeqBadges("group", filters.excludeGroups, TRUE)
      \cup SeqBadges("scaler", filters.scalers, FALSE)
      \cup SeqBadges("scaler", filters.excludeScalers, TRUE)
      \cup (IF filters.generator # NULL THEN {Badge("generator", <<>>, FALSE)} ELSE {})
      \cup SeqBadges("creator", filters.creators, FALSE)
      \cup SeqBadges("creator", filters.excludeCreators, TRUE)
      \cup (IF filters.used # NULL THEN {Badge("used", <<>>, FALSE)} ELSE {})
      \cup SeqBadges("pipeline", filters.pipelines, FALSE)
      \cup SeqBadges("pipeline", filters.excludePipelines, TRUE)
      \cup (IF filters.search # <<>> /\ inputValue = <<>>
            THEN {Badge("search", <<>>, FALSE)} ELSE {})

\* OmnibarBadge: the remove button of the badge b
onRemove(b) ==
    /\ mounted
    /\ b \in Badges
    /\ filters' = removeFilter(filters, b.type, b.value, b.negated)
    /\ UNCHANGED <<inputValue, q, mounted, showSuggestions,
                   selectedSuggestionIndex, selectionStart, props, elsewhere>>

\* the URL queries the Images page is opened with
ImagesQueries ==
    {<<>>,
     <<"f","i","r","e"," ","g","r","o","u","p",":","g","1"," ","g","r","o","u","p",":","g","2"," ","g","r","o","u","p",":","g","1"," ","-","g","r","o","u","p",":","g","2"," ","i","s",":","g","e","n","e","r","a","t","o","r">>,
     <<"s","c","a","l","e","r",":","s","1"," ","-","s","c","a","l","e","r",":","s","2"," ","-","s","c","a","l","e","r",":","s","2"," ","c","r","e","a","t","o","r",":","@","m","e"," ","-","c","r","e","a","t","o","r",":","b","o","b"," ","i","s",":","o","r","p","h","a","n">>,
     <<"p","i","p","e","l","i","n","e",":","p","1"," ","p","i","p","e","l","i","n","e",":","p","2"," ","-","p","i","p","e","l","i","n","e",":","p","3"," ","-","i","s",":","g","e","n","e","r","a","t","o","r"," ","i","s",":","u","s","e","d"," ","A","L","P","H","A">>,
     <<"g","r","o","u","p",":","g","3"," ","c","r","e","a","t","o","r",":","b","o","b"," ","c","r","e","a","t","o","r",":","a","l","i","c","e"," ","p","i","p","e","l","i","n","e",":","p","3"," ","-","c","r","e","a","t","o","r",":","a","l","i","c","e">>}

\* the texts typed into the empty input box of the Images page
ImagesTyped ==
    {<<"f","o","x"," ","g","r","o","u","p",":","g","1"," ","g","r","o","u","p",":","g","1">>,
     <<"-","p","i","p","e","l","i","n","e",":","p","1"," ","i","s",":","u","s","e","d">>,
     <<"b","u","i","l","d">>}

ImagesInit ==
    /\ InitState
    /\ ElsewhereInit
    /\ q \in ImagesQueries
    /\ \E p \in OmnibarProps : currentUser = p.user /\ Known(p.known)

ImagesNext ==
    \/ InitializeFromUrl
    \/ \E text \in ImagesTyped : inputValue = <<>> /\ handleInputChange(text)
    \/ \E b \in Badges : onRemove(b)
    \/ KeyBackspace
    \/ clearAll

ImagesSpec == ImagesInit /\ [][ImagesNext]_vars

----------------------------------------------------------------------------

(* FilterState objects and their arrays, by identity                       *)

\* most FilterState objects ever created, the default object included
MaxObjects == 4

\* the array fields of a FilterState, in the order of the type
ArrayFields ==
    <<"groups", "excludeGroups", "scalers", "excludeScalers",
      "creators", "excludeCreators", "pipelines", "excludePipelines">>

\* the FilterState that the object o stands for
Deref(o) ==
    [d \in DOMAIN o |->
        IF \E n \in 1..Len(ArrayFields) : ArrayFields[n] = d THEN arrays[o[d]] ELSE o[d]]

\* the array field that the token t assigns, if any
TokenFields(t) ==
    CASE t.key = kGroup    -> {IF t.negated THEN "excludeGroups" ELSE "groups"}
      [] t.key = kScaler   -> {IF t.negated THEN "excludeScalers" ELSE "scalers"}
      [] t.key = kCreator  -> {IF t.negated THEN "excludeCreators" ELSE "creators"}
      [] t.key = kPipeline -> {IF t.negated THEN "excludePipelines" ELSE "pipelines"}
      [] OTHER             -> {}

\* the array fields that tokensToFilters assigns for the tokens
AssignedFields(tokens) == UNION {TokenFields(tokens[n]) : n \in 1..Len(tokens)}

\* the array field that removeFilter assigns for the badge b, if any
RemovedField(b) ==
    TokenFields([key |-> IF b.type = "group" THEN kGroup
                         ELSE IF b.type = "scaler" THEN kScaler
                         ELSE IF b.type = "creator" THEN kCreator
                         ELSE IF b.type = "pipeline" THEN kPipeline
                         ELSE <<>>,
                 negated |-> b.negated])

\* the array field that removeLastFilter assigns for f, if any
LastField(f) ==
    IF f.search # <<>> \/ f.used # NULL \/ f.generator # NULL THEN {}
    ELSE LET filled == {n \in 1..Len(ArrayFields) : Len(f[ArrayFields[n]]) > 0}
         IN  IF filled = {} THEN {}
             ELSE {ArrayFields[CHOOSE n \in filled : \A m \in filled : m <= n]}

\* the new object written over its source: the assigned arrays are changed
\* in place and the new object shares them
assign_InPlace(src, g, assigned) ==
    /\ Len(objects) < MaxObjects
    /\ arrays' = [n \in 1..Len(arrays) |->
                     IF \E d \in assigned : src[d] = n
                     THEN g[CHOOSE d \in assigned : src[d] = n]
                     ELSE arrays[n]]
    /\ objects' = Append(objects,
                     [d \in DOMAIN src |->
                         IF \E n \in 1..Len(ArrayFields) : ArrayFields[n] = d
                         THEN src[d] ELSE g[d]])
    /\ current' = Len(objects) + 1

\* const newFilters = { ...src }, then newFilters.field = <a new array> for
\* each assigned field and newFilters.field = <value> for the others, then
\* onChange(newFilters); g is the FilterState that newFilters then stands
\* for.  An array that a later assignment to the same field replaces is
\* referenced by nothing and is left out.
assign(src, g, assigned) ==
    LET Assigned(d) == d \in assigned
        fresh       == SelectSeq(ArrayFields, Assigned)
        Identity(d) == Len(arrays) + CHOOSE n \in 1..Len(fresh) : fresh[n] = d
    IN  /\ Len(objects) < MaxObjects
        /\ arrays' = arrays \o [n \in 1..Len(fresh) |-> g[fresh[n]]]
        /\ objects' = Append(objects,
                         [d \in DOMAIN src |->
                             IF d \in assigned THEN Identity(d)
                             ELSE IF \E n \in 1..Len(ArrayFields) : ArrayFields[n] = d
                                  THEN src[d]
                             ELSE g[d]])
        /\ current' = Len(objects) + 1

\* tokensToFilters: const filters = { ...DEFAULT_FILTER_STATE, search }, then
\* filters.field = [...filters.field, value] for each token
tokensToFiltersObject(text) ==
    assign(objects[1], parseQueryString(text, currentUser),
           AssignedFields(parseInput(text)))

\* Images: the mount effect, setFilters(parseQueryString(q, currentUser))
setFiltersFromUrl ==
    /\ ~mounted
    /\ mounted' = TRUE
    /\ IF q # <<>>
       THEN /\ filters' = parseQueryString(q, currentUser)
            /\ tokensToFiltersObject(q)
       ELSE UNCHANGED <<filters, heap>>
    /\ UNCHANGED <<inputValue, q, showSuggestions, selectedSuggestionIndex,
                   selectionStart, props, tagEditor, commitsTab>>

\* handleInputChange: onChange(tokensToFilters(...)) for the text typed into
\* the empty input box
setFiltersFromInput(text) ==
    /\ mounted
    /\ inputValue = <<>>
    /\ inputValue' = text
    /\ showSuggestions' = TRUE
    /\ selectedSuggestionIndex' = 0
    /\ selectionStart' = Len(text)
    /\ filters' = parseAndUpdateFilters(text)
    /\ tokensToFiltersObject(text)
    /\ UNCHANGED <<q, mounted, props, tagEditor, commitsTab>>

\* removeFilter: const newFilters = { ...filters }, one field assigned
setFiltersWithout(b) ==
    /\ mounted
    /\ b \in Badges
    /\ filters' = removeFilter(filters, b.type, b.value, b.negated)
    /\ assign(objects[current], removeFilter(filters, b.type, b.value, b.negated),
              RemovedField(b))
    /\ UNCHANGED <<inputValue, q, mounted, showSuggestions,
                   selectedSuggestionIndex, selectionStart, props,
                   tagEditor, commitsTab>>

\* Backspace on the empty input box, removeLastFilter: const newFilters =
\* { ...filters }, one field assigned
setFiltersWithoutLast ==
    /\ mounted
    /\ inputValue = <<>> /\ hasActiveFilters
    /\ filters' = removeLastFilter(filters)
    /\ assign(objects[current], removeLastFilter(filters), LastField(filters))
    /\ UNCHANGED <<inputValue, q, mounted, showSuggestions,
                   selectedSuggestionIndex, selectionStart, props,
                   tagEditor, commitsTab>>

\* clearAll: onChange(DEFAULT_FILTER_STATE), the default object itself
setFiltersDefault ==
    /\ mounted
    /\ hasActiveFilters \/ inputValue # <<>>
    /\ inputValue' = <<>>
    /\ selectionStart' = 0
    /\ filters' = DEFAULT_FILTER_STATE
    /\ current' = 1
    /\ UNCHANGED <<arrays, objects>>
    /\ UNCHANGED <<q, mounted, showSuggestions, selectedSuggestionIndex, props,
                   tagEditor, commitsTab>>

\* the URL queries of the pages whose objects are followed
HeapQueries ==
    {<<>>,
     <<"f","i","r","e"," ","g","r","o","u","p",":","g","1"," ","g","r","o","u","p",":","g","2"," ","g","r","o","u","p",":","g","1"," ","-","g","r","o","u","p",":","g","2"," ","i","s",":","g","e","n","e","r","a","t","o","r">>}

\* the texts typed into the empty input box
HeapTyped ==
    {<<"-","p","i","p","e","l","i","n","e",":","p","1"," ","i","s",":","u","s","e","d">>,
     <<"f","o","x"," ","g","r","o","u","p",":","g","1"," ","g","r","o","u","p",":","g","1">>}

HeapSpecInit ==
    /\ InitState
    /\ HeapInit /\ TagEditorInit(EmptyObject) /\ CommitsInit
    /\ q \in HeapQueries
    /\ currentUser = <<>>
    /\ Known(ExampleKnownValues)

HeapNext ==
    \/ setFiltersFromUrl
    \/ \E text \in HeapTyped : setFiltersFromInput(text)
    \/ \E b \in Badges : setFiltersWithout(b)
    \/ setFiltersWithoutLast
    \/ setFiltersDefault

HeapSpec == HeapSpecInit /\ [][HeapNext]_vars

----------------------------------------------------------------------------

(* EditableRepoTags : the tag editor of a repository                       *)
(* A Tags object is a function from a key to the set of its values; the    *)
(* pendingTags and deletedTags records are functions from a key to the     *)
(* array of its values. A value is Some(text), or None for null.           *)

\* the UTF-16 code units in increasing order, as Array.prototype.sort
\* compares them
CodeUnits ==
    <<" ">> \o <<"0","1","2","3","4","5","6","7","8","9">> \o <<":", "=">>
        \o UpperLetters \o <<"_">> \o LowerLetters

CodeUnit(c) == CHOOSE n \in 1..Len(CodeUnits) : CodeUnits[n] = c

RECURSIVE Before(_, _)
\* a < b for two strings
Before(a, b) ==
    IF b = <<>> THEN FALSE
    ELSE IF a = <<>> THEN TRUE
    ELSE IF a[1] # b[1] THEN CodeUnit(a[1]) < CodeUnit(b[1])
    ELSE Before(Tail(a), Tail(b))

RECURSIVE sort(_)
\* Object.keys(o).sort() : the strings of the set S in increasing order
sort(S) ==
    IF S = {} THEN <<>>
    ELSE LET first == CHOOSE a \in S : \A b \in S \ {a} : Before(a, b)
         IN  <<first>> \o sort(S \ {first})

\* String.prototype.toUpperCase
toUpperCase(s) ==
    LET UpperChar(c) ==
            IF \E i \in 1..26 : LowerLetters[i] = c
            THEN UpperLetters[CHOOSE i \in 1..26 : LowerLetters[i] = c]
            ELSE c
    IN  [i \in 1..Len(s) |-> UpperChar(s[i])]

kTLP == <<"T","L","P">>

\* TLPLevels.sort() (one of the levels)
TLPLevels == sort({<<"G","R","E","E","N">>})

\* the keys of the other tag sections (FormattedFileInfoTagKeys left out)
excludeTags == {kTLP, <<"R","E","S","U","L","T","S">>}

\* a SelectOption : its label is its value
SelectOption(value, key, tagValue) ==
    [value |-> value, thoriumTag |-> [key |-> key, value |-> tagValue]]

tlpTagOptions ==
    [n \in 1..Len(TLPLevels) |->
        SelectOption(TLPLevels[n], kTLP, Some(TLPLevels[n]))]

tlpTags(t) == IF kTLP \in DOMAIN t /\ t[kTLP] # {} THEN sort(t[kTLP]) ELSE <<>>

initialSelectedTLPTags(t) ==
    [n \in 1..Len(tlpTags(t)) |->
        SelectOption(tlpTags(t)[n], kTLP, Some(tlpTags(t)[n]))]

generalTags(t) ==
    [k \in {key \in DOMAIN t : toUpperCase(key) \notin excludeTags} |-> t[k]]

RECURSIVE OptionsOf(_, _)
\* the options of the keys, key by key and value by value
OptionsOf(t, keys) ==
    IF keys = <<>> THEN <<>>
    ELSE LET tagKey == Head(keys)
             values == sort(t[tagKey])
         IN  [n \in 1..Len(values) |->
                 SelectOption(tagKey \o <<":"," ">> \o values[n],
                              tagKey, Some(values[n]))]
                 \o OptionsOf(t, Tail(keys))

initialGeneralTagOptions(t) ==
    LET keys == sort(DOMAIN generalTags(t))
        Kept(tagKey) == tagKey \notin excludeTags
    IN  OptionsOf(generalTags(t), SelectSeq(keys, Kept))

\* generalTagOptions : set by resetTags only, which runs whenever tags changes
generalTagOptions == initialGeneralTagOptions(tags)

\* if (x) for a string, and for a string or null
Truthy(x) == x # <<>>
TruthyValue(o) == Defined(o) /\ Truthy(o[1])

\* obj[key].push(value), or obj[key] = [value] for a new key
push(obj, key, value) ==
    IF key \in DOMAIN obj
    THEN [obj EXCEPT ![key] = Append(@, value)]
    ELSE [k \in DOMAIN obj \cup {key} |->
             IF k = key THEN <<value>> ELSE obj[k]]

\* obj[key] = obj[key].filter(...) if it holds more than one value,
\* delete obj[key] otherwise
dropValue(obj, key, value) ==
    IF Len(obj[key]) > 1
    THEN [obj EXCEPT ![key] = without(@, value)]
    ELSE [k \in DOMAIN obj \ {key} |-> obj[k]]

RECURSIVE CountValues(_, _)
CountValues(obj, keys) ==
    IF keys = {} THEN 0
    ELSE LET k == CHOOSE x \in keys : TRUE
         IN  Len(obj[k]) + CountValues(obj, keys \ {k})

\* updateUpdatedTagCount : the count it stores in numberOfChanges
updateUpdatedTagCount(pending, deleted, invalid) ==
    CountValues(pending, DOMAIN pending) + CountValues(deleted, DOMAIN deleted)
        + Len(invalid)

\* the three records updateSelectedTags clones, updates and stores
Updated ==
    [pendingTags |-> pendingTags, deletedTags |-> deletedTags,
     invalidPendingTags |-> invalidPendingTags]

\* updateSelectedTags, action 'remove-value', and one round of 'clear'
removeValue(u, tag) ==
    IF tag.key \in DOMAIN u.pendingTags
        /\ arrayIncludes(u.pendingTags[tag.key], tag.value)
    THEN [u EXCEPT !.pendingTags = dropValue(@, tag.key, tag.value)]
    ELSE IF Truthy(tag.key) /\ ~TruthyValue(tag.value)
            /\ arrayIncludes(u.invalidPendingTags, tag.key)
    THEN [u EXCEPT !.invalidPendingTags = without(@, tag.key)]
    ELSE [u EXCEPT !.deletedTags = push(@, tag.key, tag.value)]

RECURSIVE clear(_, _)
\* updateSelectedTags, action 'clear' : cleared.forEach
clear(u, cleared) ==
    IF cleared = <<>> THEN u
    ELSE clear(removeValue(u, Head(cleared).thoriumTag), Tail(cleared))

\* updateSelectedTags, action 'select-option'
selectOption(u, tag) ==
    IF tag.key \in DOMAIN u.deletedTags
        /\ arrayIncludes(u.deletedTags[tag.key], tag.value)
    THEN [u EXCEPT !.deletedTags = dropValue(@, tag.key, tag.value)]
    ELSE [u EXCEPT !.pendingTags = push(@, tag.key, tag.value)]

\* parseRawTag
parseRawTag(rawTag) ==
    LET Split(c) ==
            LET tagKey == slice(rawTag, 0, indexOf(rawTag, c))
            IN  [key |-> tagKey,
                 value |-> Some(sliceFrom(rawTag, Len(tagKey) + 1))]
    IN  IF indexOf(rawTag, ":") >= 0 THEN Split(":")
        ELSE IF indexOf(rawTag, "=") >= 0 THEN Split("=")
        ELSE [key |-> rawTag, value |-> None]

\* updateSelectedTags, action 'create-option'
createOption(u, rawTag) ==
    LET tag == parseRawTag(rawTag)
    IN  IF Truthy(tag.key) /\ TruthyValue(tag.value)
        THEN [u EXCEPT !.pendingTags = push(@, tag.key, tag.value)]
        ELSE IF ~arrayIncludes(u.invalidPendingTags, tag.key)
        THEN [u EXCEPT !.invalidPendingTags = Append(@, tag.key)]
        ELSE u

\* updateSelectedTags : the three records it stores
updateSelectedTags(newValue) ==
    IF newValue.action = "clear"
    THEN clear(Updated, newValue.removedValues)
    ELSE IF newValue.action = "remove-value"
    THEN removeValue(Updated, newValue.removedValue.thoriumTag)
    ELSE IF newValue.action = "select-option"
    THEN selectOption(Updated, newValue.option.thoriumTag)
    ELSE IF newValue.action = "create-option"
    THEN createOption(Updated, newValue.option.value)
    ELSE Updated

\* the texts typed into the Tags select to create a tag
NewTags == {<<"k",":","v">>, <<"x">>}

\* react-select : the typed text is offered as a new option unless it is
\* empty or the value of a selected or listed option, whatever the case
isValidNewOption(typed, selectValue, options) ==
    /\ typed # <<>>
    /\ \A n \in 1..Len(selectValue) :
           toLowerCase(selectValue[n].value) # toLowerCase(typed)
    /\ \A n \in 1..Len(options) :
           toLowerCase(options[n].value) # toLowerCase(typed)

\* the value without its n-th option
RemoveAt(value, n) == SubSeq(value, 1, n - 1) \o SubSeq(value, n + 1, Len(value))

\* react-select, isMulti isClearable : the (selected, newValue) pairs it can
\* hand to onChange when value is selected and options are listed
Changes(value, options) ==
    {[selected |-> Append(value, options[n]),
      newValue |-> [action |-> "select-option", option |-> options[n]]] :
        n \in {m \in 1..Len(options) : ~arrayIncludes(value, options[m])}}
    \cup
    {[selected |-> RemoveAt(value, n),
      newValue |-> [action |-> "remove-value", removedValue |-> value[n]]] :
        n \in 1..Len(value)}
    \cup
    {[selected |-> <<>>,
      newValue |-> [action |-> "clear", removedValues |-> value]] :
        n \in {m \in {1} : value # <<>>}}

\* react-select/creatable : the new option, with the thoriumTag that
\* updateSelectedTags stores on it
Creations(value, options) ==
    LET Created(rawTag) ==
            [value |-> rawTag, thoriumTag |-> parseRawTag(rawTag)]
    IN  {[selected |-> Append(value, Created(rawTag)),
          newValue |-> [action |-> "create-option",
                        option |-> Created(rawTag)]] :
            rawTag \in {r \in NewTags : isValidNewOption(r, value, options)}}

\* updateSelectedTags : updateUpdatedTagCount, setDeletedTags, setPendingTags
\* and setInvalidPendingTags
setUpdatedTags(u) ==
    /\ numberOfChanges' =
           updateUpdatedTagCount(u.pendingTags, u.deletedTags,
                                 u.invalidPendingTags)
    /\ deletedTags' = u.deletedTags
    /\ pendingTags' = u.pendingTags
    /\ invalidPendingTags' = u.invalidPendingTags

\* the TLP <Select> : onChange
onChangeTlp(selected, newValue) ==
    /\ editing
    /\ ~showUpdateModal
    /\ selectedTlpTags' = selected
    /\ setUpdatedTags(updateSelectedTags(newValue))
    /\ UNCHANGED <<tags, editing, selectedGeneralTags, showUpdateModal,
                   commit, requests, omnibar, heap, commitsTab>>

\* the Tags <CreatableSelect> : onChange
onChangeGeneral(selected, newValue) ==
    /\ editing
    /\ ~showUpdateModal
    /\ selectedGeneralTags' = selected
    /\ setUpdatedTags(updateSelectedTags(newValue))
    /\ UNCHANGED <<tags, editing, selectedTlpTags, showUpdateModal,
                   commit, requests, omnibar, heap, commitsTab>>

\* resetTags, for the tags t
resetTags(t) ==
    /\ pendingTags' = EmptyObject
    /\ deletedTags' = EmptyObject
    /\ invalidPendingTags' = <<>>
    /\ numberOfChanges' = 0
    /\ selectedTlpTags' = initialSelectedTLPTags(t)
    /\ selectedGeneralTags' = initialGeneralTagOptions(t)

\* EditTagButton : the edit / cancel button
toggleEditing ==
    /\ ~showUpdateModal
    /\ editing' = ~editing
    /\ IF editing
       THEN resetTags(tags)
       ELSE UNCHANGED <<pendingTags, deletedTags, invalidPendingTags,
                        numberOfChanges, selectedTlpTags, selectedGeneralTags>>
    /\ UNCHANGED <<tags, showUpdateModal, commit, requests,
                   omnibar, heap, commitsTab>>

\* EditTagButton : the save button
openUpdateModal ==
    /\ ~showUpdateModal
    /\ editing \/ numberOfChanges > 0
    /\ numberOfChanges # 0
    /\ showUpdateModal' = TRUE
    /\ UNCHANGED <<tags, editing, pendingTags, deletedTags, invalidPendingTags,
                   selectedGeneralTags, selectedTlpTags, numberOfChanges,
                   commit, requests, omnibar, heap, commitsTab>>

\* Modal : onHide (the close button of the header)
onHide ==
    /\ showUpdateModal
    /\ showUpdateModal' = FALSE
    /\ UNCHANGED <<tags, editing, pendingTags, deletedTags, invalidPendingTags,
                   selectedGeneralTags, selectedTlpTags, numberOfChanges,
                   commit, requests, omnibar, heap, commitsTab>>

\* Modal : the Clear button
clearChanges ==
    /\ showUpdateModal
    /\ resetTags(tags)
    /\ showUpdateModal' = FALSE
    /\ UNCHANGED <<tags, editing, commit, requests, omnibar, heap, commitsTab>>

\* a request of commitTagUpdates
Request(method, body) == [method |-> method, tags |-> body]

\* commitTagUpdates, after the delete : the upload if pendingTags has keys,
\* otherwise what follows the upload
AfterDelete(c) ==
    IF DOMAIN c.pendingTags # {}
    THEN /\ commit' = [c EXCEPT !.pc = "uploadRepoTags"]
         /\ requests' = Append(requests, Request("POST", c.pendingTags))
    ELSE IF ~c.error
    THEN /\ commit' = [c EXCEPT !.pc = "getRepoDetails"]
         /\ requests' = Append(requests, Request("GET", EmptyObject))
    ELSE /\ commit' = NotCommitting
         /\ UNCHANGED requests

\* AfterUpload, had it asked for the details whether or not a request failed
AfterUpload_FetchAlways(c) ==
    /\ commit' = [c EXCEPT !.pc = "getRepoDetails"]
    /\ requests' = Append(requests, Request("GET", EmptyObject))

\* commitTagUpdates, after the upload : the details, unless a request failed
AfterUpload(c) ==
    IF ~c.error
    THEN /\ commit' = [c EXCEPT !.pc = "getRepoDetails"]
         /\ requests' = Append(requests, Request("GET", EmptyObject))
    ELSE /\ commit' = NotCommitting
         /\ UNCHANGED requests

\* Modal : the Confirm button; commitTagUpdates up to its first await
commitTagUpdates ==
    /\ showUpdateModal
    /\ numberOfChanges - Len(invalidPendingTags) # 0
    /\ commit.pc = "idle"
    /\ LET c == [pc |-> "idle", error |-> FALSE,
                 deletedTags |-> deletedTags, pendingTags |-> pendingTags]
       IN  IF DOMAIN deletedTags # {}
           THEN /\ commit' = [c EXCEPT !.pc = "deleteRepoTags"]
                /\ requests' = <<Request("DELETE", deletedTags)>>
           ELSE IF DOMAIN pendingTags # {}
           THEN /\ commit' = [c EXCEPT !.pc = "uploadRepoTags"]
                /\ requests' = <<Request("POST", pendingTags)>>
           ELSE /\ commit' = [c EXCEPT !.pc = "getRepoDetails"]
                /\ requests' = <<Request("GET", EmptyObject)>>
    /\ UNCHANGED <<tags, editing, pendingTags, deletedTags, invalidPendingTags,
                   selectedGeneralTags, selectedTlpTags, showUpdateModal,
                   numberOfChanges, omnibar, heap, commitsTab>>

\* commitTagUpdates : await deleteRepoTags returns deleteSuccess
deleteRepoTagsReturns(deleteSuccess) ==
    /\ commit.pc = "deleteRepoTags"
    /\ AfterDelete([commit EXCEPT !.error = ~deleteSuccess])
    /\ UNCHANGED <<tags, editing, pendingTags, deletedTags, invalidPendingTags,
                   selectedGeneralTags, selectedTlpTags, showUpdateModal,
                   numberOfChanges, omnibar, heap, commitsTab>>

\* commitTagUpdates : await uploadRepoTags returns createSuccess
uploadRepoTagsReturns(createSuccess) ==
    /\ commit.pc = "uploadRepoTags"
    /\ AfterUpload([commit EXCEPT !.error = @ \/ ~createSuccess])
    /\ UNCHANGED <<tags, editing, pendingTags, deletedTags, invalidPendingTags,
                   selectedGeneralTags, selectedTlpTags, showUpdateModal,
                   numberOfChanges, omnibar, heap, commitsTab>>

\* the tags of the repo once the values of deleted are removed from t and
\* the values of pending added to it
updatedRepoTags(t, deleted, pending) ==
    LET Values(obj, k) ==
            IF k \in DOMAIN obj
            THEN {obj[k][n][1] : n \in {m \in 1..Len(obj[k]) : Defined(obj[k][m])}}
            ELSE {}
        Kept(k) ==
            ((IF k \in DOMAIN t THEN t[k] ELSE {}) \ Values(deleted, k))
                \cup Values(pending, k)
    IN  [k \in {key \in DOMAIN t \cup DOMAIN pending : Kept(key) # {}} |->
            Kept(k)]

\* commitTagUpdates : await getRepoDetails returns updatedRepoDetails, null
\* (None) or the details with their tags; setDetails hands the tags back as
\* the tags prop, and the effect on [tags] runs resetTags
getRepoDetailsReturns(updatedRepoDetails) ==
    /\ commit.pc = "getRepoDetails"
    /\ commit' = NotCommitting
    /\ IF Defined(updatedRepoDetails)
       THEN /\ showUpdateModal' = FALSE
            /\ tags' = updatedRepoDetails[1]
            /\ editing' = FALSE
            /\ resetTags(updatedRepoDetails[1])
       ELSE UNCHANGED <<tags, editing, pendingTags, deletedTags,
                        invalidPendingTags, selectedGeneralTags,
                        selectedTlpTags, showUpdateModal, numberOfChanges>>
    /\ UNCHANGED <<requests, omnibar, heap, commitsTab>>

\* the tags of the repository when the page opens
RepoTags ==
    {EmptyObject,
     [k \in {kTLP, <<"k">>} |-> IF k = kTLP THEN {<<"G","R","E","E","N">>} ELSE {<<"v">>}]}

\* the tag editor once mounted: the effect on [tags] has run resetTags
TagsInit ==
    /\ InitState
    /\ HeapInit
    /\ CommitsInit
    /\ q = <<>>
    /\ currentUser = <<>>
    /\ Known(ExampleKnownValues)
    /\ \E t \in RepoTags :
        /\ tags = t
        /\ selectedTlpTags = initialSelectedTLPTags(t)
        /\ selectedGeneralTags = initialGeneralTagOptions(t)
    /\ editing = FALSE
    /\ pendingTags = EmptyObject
    /\ deletedTags = EmptyObject
    /\ invalidPendingTags = <<>>
    /\ showUpdateModal = FALSE
    /\ numberOfChanges = 0
    /\ commit = NotCommitting
    /\ requests = <<>>

TagsNext ==
    \/ \E c \in Changes(selectedTlpTags, tlpTagOptions) :
           onChangeTlp(c.selected, c.newValue)
    \/ \E c \in Changes(selectedGeneralTags, generalTagOptions)
                    \cup Creations(selectedGeneralTags, generalTagOptions) :
           onChangeGeneral(c.selected, c.newValue)
    \/ toggleEditing
    \/ openUpdateModal
    \/ onHide
    \/ clearChanges
    \/ commitTagUpdates
    \/ \E deleteSuccess \in BOOLEAN : deleteRepoTagsReturns(deleteSuccess)
    \/ \E createSuccess \in BOOLEAN : uploadRepoTagsReturns(createSuccess)
    \/ \E updatedRepoDetails \in
            {None, Some(updatedRepoTags(tags, commit.deletedTags,
                                        commit.pendingTags))} :
           getRepoDetailsReturns(updatedRepoDetails)

TagsSpec == TagsInit /\ [][TagsNext]_vars

----------------------------------------------------------------------------

(* Commits : the commits tab of a repository                               *)
(* A cursor is None (undefined) or Some(n), n the number of entries the    *)
(* API has handed out so far.                                              *)

\* the most requests that are awaited at once
MaxFetches == 2

\* params.limit (50 in the code)
limit == 2

\* the commitish entries of the repository, in the order the API lists them
Repository ==
    <<[id |-> 1, kind |-> "Commit"], [id |-> 2, kind |-> "Branch"],
      [id |-> 3, kind |-> "Commit"], [id |-> 4, kind |-> "Tag"]>>

\* buildKindsFilter, for the three checkboxes
buildKindsFilter(commits, branches, tagKinds) ==
    (IF commits THEN <<"Commit">> ELSE <<>>)
        \o (IF branches THEN <<"Branch">> ELSE <<>>)
        \o (IF tagKinds THEN <<"Tag">> ELSE <<>>)

\* getCommitishDetails : the page the API returns for params
getCommitishDetails(params) ==
    LET OfKind(entry) == arrayIncludes(params.kinds, entry.kind)
        all   == SelectSeq(Repository, OfKind)
        start == IF Defined(params.cursor) THEN params.cursor[1] ELSE 0
        end   == Min(start + params.limit, Len(all))
    IN  [data   |-> SubSeq(all, start + 1, end),
         cursor |-> IF end < Len(all) THEN Some(end) ELSE None]

\* fetchCommitish(loadMore) up to its await, with the checkboxes as given
fetchCommitish(loadMore, commits, branches, tagKinds) ==
    LET kinds == buildKindsFilter(commits, branches, tagKinds)
    IN  IF Len(kinds) = 0
        THEN /\ commitishList' = <<>>
             /\ loading' = FALSE
             /\ UNCHANGED <<cursor, hasMore, fetches>>
        ELSE /\ Len(fetches) < MaxFetches
             /\ loading' = TRUE
             /\ fetches' =
                    Append(fetches,
                           [loadMore |-> loadMore,
                            params |-> [kinds |-> kinds, limit |-> limit,
                                        cursor |-> IF loadMore THEN cursor
                                                   ELSE None]])
             /\ UNCHANGED <<commitishList, cursor, hasMore>>

\* the Commits checkbox : setShowCommits, then the effect on the filters
toggleCommits ==
    /\ showCommits' = ~showCommits
    /\ fetchCommitish(FALSE, ~showCommits, showBranches, showTags)
    /\ UNCHANGED <<showBranches, showTags, omnibar, heap, tagEditor>>

\* the Branches checkbox : setShowBranches, then the effect on the filters
toggleBranches ==
    /\ showBranches' = ~showBranches
    /\ fetchCommitish(FALSE, showCommits, ~showBranches, showTags)
    /\ UNCHANGED <<showCommits, showTags, omnibar, heap, tagEditor>>

\* the Tags checkbox : setShowTags, then the effect on the filters
toggleTags ==
    /\ showTags' = ~showTags
    /\ fetchCommitish(FALSE, showCommits, showBranches, ~showTags)
    /\ UNCHANGED <<showCommits, showBranches, omnibar, heap, tagEditor>>

\* the Load More button
loadMoreClick ==
    /\ hasMore
    /\ ~loading
    /\ fetchCommitish(TRUE, showCommits, showBranches, showTags)
    /\ UNCHANGED <<showCommits, showBranches, showTags,
                   omnibar, heap, tagEditor>>

\* fetchCommitish after its await : the n-th awaited request returns result,
\* None for a request that failed
getCommitishDetailsReturns(n, result) ==
    /\ n \in 1..Len(fetches)
    /\ fetches' = RemoveAt(fetches, n)
    /\ IF Defined(result)
       THEN /\ commitishList' =
                   IF fetches[n].loadMore
                   THEN commitishList \o result[1].data
                   ELSE result[1].data
            /\ cursor' = result[1].cursor
            /\ hasMore' = Defined(result[1].cursor)
       ELSE UNCHANGED <<commitishList, cursor, hasMore>>
    /\ loading' = FALSE
    /\ UNCHANGED <<showCommits, showBranches, showTags,
                   omnibar, heap, tagEditor>>

\* the tab once mounted: the effect has called fetchCommitish(false)
CommitsSpecInit ==
    /\ InitState
    /\ HeapInit
    /\ TagEditorInit(EmptyObject)
    /\ q = <<>>
    /\ currentUser = <<>>
    /\ Known(ExampleKnownValues)
    /\ showCommits = TRUE
    /\ showBranches = TRUE
    /\ showTags = TRUE
    /\ commitishList = <<>>
    /\ cursor = None
    /\ hasMore = FALSE
    /\ loading = TRUE
    /\ fetches =
           <<[loadMore |-> FALSE,
              params |-> [kinds |-> buildKindsFilter(TRUE, TRUE, TRUE),
                          limit |-> limit, cursor |-> None]]>>

CommitsNext ==
    \/ toggleCommits
    \/ toggleBranches
    \/ toggleTags
    \/ loadMoreClick
    \/ \E n \in 1..Len(fetches) :
           \E result \in {None, Some(getCommitishDetails(fetches[n].params))} :
               getCommitishDetailsReturns(n, result)

CommitsSpec == CommitsSpecInit /\ [][CommitsNext]_vars

----------------------------------------------------------------------------

(* Helpers of the properties                                               *)

\* the raw texts the page parses: the URL query and the input box
Texts == {q, inputValue}

\* the sequence fields of a FilterState
SeqFields ==
    {"groups", "excludeGroups", "scalers", "excludeScalers",
     "creators", "excludeCreators", "pipelines", "excludePipelines"}

\* number of occurrences of v in the sequence a
Count(a, v) == Cardinality({n \in 1..Len(a) : a[n] = v})

\* a and b hold the same values the same number of times
SameBag(a, b) ==
    /\ Len(a) = Len(b)
    /\ \A n \in 1..Len(a) : Count(a, a[n]) = Count(b, a[n])

\* two FilterStates equal up to the order inside each sequence
SameUpToOrder(f, g) ==
    /\ f.search = g.search
    /\ f.generator = g.generator
    /\ f.used = g.used
    /\ \A d \in SeqFields : SameBag(f[d], g[d])

\* part occurs in text as a contiguous run
Contains(text, part) ==
    \E i \in 0..(Len(text) - Len(part)) : SubSeq(text, i + 1, i + Len(part)) = part

\* the value text of a match, as written (quotes included)
RawValue(s, m) == SubSeq(s, m.colon + 1, m.end - 1)

\* a value text that is a complete double-quoted string
IsQuoted(v) == Len(v) >= 2 /\ v[1] = QUOTE /\ v[Len(v)] = QUOTE

\* every token of s stands alone between whitespace and its value is either
\* a complete quoted string or free of quote characters
WellFormed(s) ==
    LET ms == TOKEN_PATTERN(s)
    IN  \A n \in 1..Len(ms) :
            /\ ms[n].start = 1 \/ s[ms[n].start - 1] \in WhiteSpace
            /\ ms[n].end > Len(s) \/ s[ms[n].end] \in WhiteSpace
            /\ \/ IsQuoted(RawValue(s, ms[n]))
               \/ \A i \in (ms[n].colon + 1)..(ms[n].end - 1) : s[i] # QUOTE

----------------------------------------------------------------------------
(* Round trips between text and FilterState                                *)

\* C1: for every well-formed input s, parsing the query string written from
\* parseQueryString(s) gives parseQueryString(s) again, field by field.
C1_IdempotentNormalization ==
    \A s \in Texts :
        WellFormed(s) =>
            LET f == parseQueryString(s, currentUser)
            IN  parseQueryString(filtersToQueryString(f), currentUser) = f

\* C2: for every FilterState f, parseQueryString(filtersToQueryString(f))
\* equals f: the sequences up to order, search, generator and used exactly.
C2_RoundTripFromStructure ==
    SameUpToOrder(parseQueryString(filtersToQueryString(filters), currentUser), filters)

----------------------------------------------------------------------------
(* filtersToQueryString: order of the output                               *)

\* the text written for one value: as it is for scalers, quoted when it
\* holds a space for the other dimensions
C3_ValueText(rank, v) == IF rank \in {3, 4} THEN v ELSE QuoteIfSpace(v)

\* the tokens of the category at a rank of the fixed order
\* 1 groups, 2 excludeGroups, 3 scalers, 4 excludeScalers, 5 generator,
\* 6 creators, 7 excludeCreators, 8 used/orphan, 9 pipelines,
\* 10 excludePipelines, 11 search
C3_Category(f, rank) ==
    LET list(prefix, values) ==
            [n \in 1..Len(values) |-> prefix \o C3_ValueText(rank, values[n])]
    IN  CASE rank = 1  -> list(<<"g","r","o","u","p",":">>, f.groups)
          [] rank = 2  -> list(<<"-","g","r","o","u","p",":">>, f.excludeGroups)
          [] rank = 3  -> list(<<"s","c","a","l","e","r",":">>, f.scalers)
          [] rank = 4  -> list(<<"-","s","c","a","l","e","r",":">>, f.excludeScalers)
          [] rank = 5  -> IF f.generator = NULL THEN <<>>
                          ELSE IF f.generator = "true" THEN << <<"i","s",":","g","e","n","e","r","a","t","o","r">> >>
                          ELSE << <<"-","i","s",":","g","e","n","e","r","a","t","o","r">> >>
          [] rank = 6  -> list(<<"c","r","e","a","t","o","r",":">>, f.creators)
          [] rank = 7  -> list(<<"-","c","r","e","a","t","o","r",":">>, f.excludeCreators)
          [] rank = 8  -> IF f.used = NULL THEN <<>>
                          ELSE IF f.used = "true" THEN << <<"i","s",":","u","s","e","d">> >>
                          ELSE << <<"i","s",":","o","r","p","h","a","n">> >>
          [] rank = 9  -> list(<<"p","i","p","e","l","i","n","e",":">>, f.pipelines)
          [] rank = 10 -> list(<<"-","p","i","p","e","l","i","n","e",":">>, f.excludePipelines)
          [] rank = 11 -> IF f.search = <<>> THEN <<>> ELSE <<f.search>>

RECURSIVE C3_InOrder(_, _)
\* the tokens of every category from rank on, lower ranks first
C3_InOrder(f, rank) ==
    IF rank > 11 THEN <<>> ELSE C3_Category(f, rank) \o C3_InOrder(f, rank + 1)

RECURSIVE C3_SpaceJoined(_)
\* the texts with exactly one space between neighbours
C3_SpaceJoined(texts) ==
    IF texts = <<>> THEN <<>>
    ELSE IF Tail(texts) = <<>> THEN Head(texts)
    ELSE Head(texts) \o <<" ">> \o C3_SpaceJoined(Tail(texts))

\* the rank of a token read back from an output string (0: none)
C3_RankOf(t) ==
    CASE t.key = kGroup    -> IF t.negated THEN 2 ELSE 1
      [] t.key = kScaler   -> IF t.negated THEN 4 ELSE 3
      [] t.key = kIs /\ t.value = kGenerator -> 5
      [] t.key = kCreator  -> IF t.negated THEN 7 ELSE 6
      [] t.key = kIs /\ t.value \in {kUsed, kOrphan} -> 8
      [] t.key = kPipeline -> IF t.negated THEN 10 ELSE 9
      [] OTHER -> 0

\* a FilterState whose values are plain words and whose search has no ':',
\* so that its output string reads back token by token
C3_Plain(f) ==
    /\ \A d \in SeqFields : \A n \in 1..Len(f[d]) :
           f[d][n] # <<>> /\ \A i \in 1..Len(f[d][n]) : f[d][n][i] \in WordChars
    /\ \A i \in 1..Len(f.search) : f.search[i] # ":"

\* C3: filtersToQueryString emits groups (include then exclude), scalers,
\* generator, creators, used/orphan, pipelines, then the search text, joined
\* by single spaces, whatever the order the FilterState was built in; read
\* back from the string, the tokens never step down in that order and the
\* search text ends the string.
C3_FixedOrder ==
    LET out == filtersToQueryString(filters)
        ts  == parseInput(out)
    IN  /\ out = C3_SpaceJoined(C3_InOrder(filters, 1))
        /\ C3_Plain(filters) =>
              /\ \A n \in 1..Len(ts) : C3_RankOf(ts[n]) \in 1..10
              /\ \A n \in 1..(Len(ts) - 1) : C3_RankOf(ts[n]) <= C3_RankOf(ts[n + 1])
              /\ filters.search # <<>> =>
                    SubSeq(out, Len(out) - Len(filters.search) + 1, Len(out))
                        = filters.search

\* the query that fills every field, typed in reverse order, was restored for
\* alice and submitted: the URL holds it in the fixed order
C3_Witness ==
    /\ mounted
    /\ currentUser = <<"a","l","i","c","e">>
    /\ q = filtersToQueryString(filters)
    /\ q = <<"g","r","o","u","p",":","g","1"," ","-","g","r","o","u","p",":","\"","g"," ","h","\""," ","s","c","a","l","e","r",":","s","1"," ","-","s","c","a","l","e","r",":","s","2"," ","-","i","s",":","g","e","n","e","r","a","t","o","r"," ","c","r","e","a","t","o","r",":","a","l","i","c","e"," ","-","c","r","e","a","t","o","r",":","\"","c"," ","d","\""," ","i","s",":","u","s","e","d"," ","p","i","p","e","l","i","n","e",":","\"","p"," ","q","\""," ","-","p","i","p","e","l","i","n","e",":","p","2"," ","x">>

----------------------------------------------------------------------------
(* filtersToQueryString: quoting                                           *)

\* the token prefix of each sequence field
C4_Prefix(d) ==
    CASE d = "groups"           -> <<"g","r","o","u","p",":">>
      [] d = "excludeGroups"    -> <<"-","g","r","o","u","p",":">>
      [] d = "scalers"          -> <<"s","c","a","l","e","r",":">>
      [] d = "excludeScalers"   -> <<"-","s","c","a","l","e","r",":">>
      [] d = "creators"         -> <<"c","r","e","a","t","o","r",":">>
      [] d = "excludeCreators"  -> <<"-","c","r","e","a","t","o","r",":">>
      [] d = "pipelines"        -> <<"p","i","p","e","l","i","n","e",":">>
      [] d = "excludePipelines" -> <<"-","p","i","p","e","l","i","n","e",":">>

\* C4: in the string produced by filtersToQueryString every value that
\* contains a space stands between double quotes, for each of groups,
\* scalers, creators and pipelines, include and exclude.
C4_SpaceValuesQuoted ==
    LET out == filtersToQueryString(filters)
    IN  \A d \in SeqFields : \A n \in 1..Len(filters[d]) :
            includesSpace(filters[d][n]) =>
                Contains(out, C4_Prefix(d) \o <<QUOTE>> \o filters[d][n] \o <<QUOTE>>)

----------------------------------------------------------------------------
(* tokensToFilters: routing of the sequence tokens                         *)

\* the values of the tokens with the given key and negation, in token order
C5_Values(ts, key, negated) ==
    LET picked == SelectSeq(ts, LAMBDA t : t.key = key /\ t.negated = negated)
    IN  [n \in 1..Len(picked) |-> picked[n].value]

\* "group:alpha -group:beta is:generator free text"
C5_Example == <<"g","r","o","u","p",":","a","l","p","h","a"," ","-","g","r","o","u","p",":","b","e","t","a"," ","i","s",":","g","e","n","e","r","a","t","o","r"," ","f","r","e","e"," ","t","e","x","t">>

\* what the example must yield: every other field at its default
C5_ExampleFilters ==
    [search           |-> <<"f","r","e","e"," ","t","e","x","t">>,
     groups           |-> << <<"a","l","p","h","a">> >>,
     excludeGroups    |-> << <<"b","e","t","a">> >>,
     scalers          |-> <<>>,
     excludeScalers   |-> <<>>,
     generator        |-> "true",
     creators         |-> <<>>,
     excludeCreators  |-> <<>>,
     used             |-> "null",
     pipelines        |-> <<>>,
     excludePipelines |-> <<>>]

\* C5: each group/scaler/creator/pipeline token is appended exactly once, to
\* the exclude sequence when negated and to the include sequence otherwise,
\* in token order with duplicates kept, and the free text becomes search
\* (what is stored for a creator token @me is C9's subject).
C5_TokenRouting ==
    /\ \A s \in Texts :
         LET ts   == parseInput(s)
             free == extractFreeText(s)
             f    == tokensToFilters(ts, free, currentUser)
             inC  == C5_Values(ts, <<"c","r","e","a","t","o","r">>, FALSE)
             exC  == C5_Values(ts, <<"c","r","e","a","t","o","r">>, TRUE)
         IN  /\ f.groups           = C5_Values(ts, <<"g","r","o","u","p">>, FALSE)
             /\ f.excludeGroups    = C5_Values(ts, <<"g","r","o","u","p">>, TRUE)
             /\ f.scalers          = C5_Values(ts, <<"s","c","a","l","e","r">>, FALSE)
             /\ f.excludeScalers   = C5_Values(ts, <<"s","c","a","l","e","r">>, TRUE)
             /\ f.pipelines        = C5_Values(ts, <<"p","i","p","e","l","i","n","e">>, FALSE)
             /\ f.excludePipelines = C5_Values(ts, <<"p","i","p","e","l","i","n","e">>, TRUE)
             /\ Len(f.creators) = Len(inC)
             /\ \A n \in 1..Len(inC) : inC[n] # <<"@","m","e">> => f.creators[n] = inC[n]
             /\ Len(f.excludeCreators) = Len(exC)
             /\ \A n \in 1..Len(exC) : exC[n] # <<"@","m","e">> => f.excludeCreators[n] = exC[n]
             /\ f.search = free
    /\ parseQueryString(C5_Example, currentUser) = C5_ExampleFilters

\* the page was opened with the example as its query and restored it
C5_Witness ==
    /\ mounted
    /\ q = C5_Example
    /\ filters = C5_ExampleFilters

----------------------------------------------------------------------------
(* parseInput: shape and order of the tokens                               *)

\* c is the upper-case form of the lower-case letter l
C6_UpperOf(c, l) == \E i \in 1..26 : UpperLetters[i] = c /\ LowerLetters[i] = l

\* key is the text written, lower-cased
C6_LowerCased(key, written) ==
    /\ Len(key) = Len(written)
    /\ \A i \in 1..Len(key) :
          /\ ~ \E l \in 1..26 : UpperLetters[l] = key[i]
          /\ key[i] = written[i] \/ C6_UpperOf(written[i], key[i])

\* the token's raw text is: optional '-', word characters, ':', then a
\* double-quoted string or a run without whitespace; key and value are read
\* from it (a run that is only a double quote gives the empty value)
C6_WellShaped(t) ==
    LET raw == t.raw
        neg == IF t.negated THEN 1 ELSE 0
    IN  \E k \in 1..Len(raw) :
            /\ raw[k] = ":"
            /\ \A i \in 1..(k - 1) : raw[i] # ":"
            /\ t.negated <=> raw[1] = "-"
            /\ k - 1 - neg >= 1
            /\ \A i \in (neg + 1)..(k - 1) : raw[i] \in WordChars
            /\ C6_LowerCased(t.key, SubSeq(raw, neg + 1, k - 1))
            /\ LET written == SubSeq(raw, k + 1, Len(raw))
                   inner   == SubSeq(written, 2, Len(written) - 1)
               IN  \/ /\ IsQuoted(written)
                      /\ \A i \in 1..Len(inner) : inner[i] # QUOTE
                      /\ t.value = inner
                   \/ /\ ~IsQuoted(written)
                      /\ written # <<>>
                      /\ \A i \in 1..Len(written) : written[i] \notin WhiteSpace
                      /\ t.value = IF written = <<QUOTE>> THEN <<>> ELSE written

RECURSIVE C6_InOrder(_, _, _, _)
\* the raw texts of the tokens from the n-th on lie in s from index i on,
\* one after the other without overlap
C6_InOrder(s, ts, n, i) ==
    IF n > Len(ts) THEN TRUE
    ELSE \E p \in i..(Len(s) - Len(ts[n].raw) + 1) :
            /\ SubSeq(s, p, p + Len(ts[n].raw) - 1) = ts[n].raw
            /\ C6_InOrder(s, ts, n + 1, p + Len(ts[n].raw))

\* creator:"Jane Doe"
C6_Example == <<"c","r","e","a","t","o","r",":","\"","J","a","n","e"," ","D","o","e","\"">>

\* C6: parseInput returns the tokens in left-to-right input order, each one
\* optional '-', word-character key, ':', then a double-quoted string or a
\* non-whitespace run; the key is lower-cased, the value keeps its casing and
\* loses the quotes around a quoted value, which may hold spaces.
C6_TokenShape ==
    /\ \A s \in Texts :
         LET ts == parseInput(s)
         IN  /\ \A n \in 1..Len(ts) : C6_WellShaped(ts[n])
             /\ C6_InOrder(s, ts, 1, 1)
    /\ parseQueryString(C6_Example, currentUser).creators = << <<"J","a","n","e"," ","D","o","e">> >>

\* the page restored creator:"Jane Doe" from its URL
C6_Witness ==
    /\ mounted
    /\ q = C6_Example
    /\ filters.creators = << <<"J","a","n","e"," ","D","o","e">> >>

----------------------------------------------------------------------------
(* Unterminated quotes                                                     *)

RECURSIVE C7_WordRunStart(_, _)
\* the first index of the word-character run that ends at j
C7_WordRunStart(s, j) ==
    IF j > 1 /\ s[j - 1] \in WordChars THEN C7_WordRunStart(s, j - 1) ELSE j

\* the colons of s that follow a key and open a double quote never closed
C7_OpenQuotes(s) ==
    {k \in 2..(Len(s) - 1) :
        /\ s[k] = ":"
        /\ s[k - 1] \in WordChars
        /\ s[k + 1] = QUOTE
        /\ \A i \in (k + 2)..Len(s) : s[i] # QUOTE}

\* the key:"... fragment around such a colon, up to the next whitespace
C7_Fragment(s, k) ==
    SubSeq(s, C7_WordRunStart(s, k - 1), NonSpaceRunEnd(s, k + 1) - 1)

\* C7: a key:value fragment whose value opens a double quote that is never
\* closed is not a token: parseInput returns no token for it and its text
\* stays in the free text that extractFreeText returns.
C7_UnterminatedQuoteIsFreeText ==
    \A s \in Texts :
        /\ \A n \in 1..Len(parseInput(s)) :
              LET raw     == parseInput(s)[n].raw
                  colon   == CHOOSE k \in 1..Len(raw) :
                                 raw[k] = ":" /\ \A i \in 1..(k - 1) : raw[i] # ":"
                  written == SubSeq(raw, colon + 1, Len(raw))
              IN  ~(written[1] = QUOTE /\ ~IsQuoted(written))
        /\ \A k \in C7_OpenQuotes(s) :
              Contains(extractFreeText(s), C7_Fragment(s, k))

----------------------------------------------------------------------------
(* Tokens that set nothing                                                 *)

\* a token that the mapping acts on: a sequence key, is: with a reserved
\* word, or generator: with a yes/no word (words compared lower-cased)
C8_Effective(t) ==
    \/ t.key \in {<<"g","r","o","u","p">>, <<"s","c","a","l","e","r">>, <<"c","r","e","a","t","o","r">>, <<"p","i","p","e","l","i","n","e">>}
    \/ /\ t.key = <<"i","s">>
       /\ toLowerCase(t.value) \in {<<"g","e","n","e","r","a","t","o","r">>, <<"u","s","e","d">>, <<"o","r","p","h","a","n">>}
    \/ /\ t.key = <<"g","e","n","e","r","a","t","o","r">>
       /\ toLowerCase(t.value) \in {<<"y","e","s">>, <<"t","r","u","e">>, <<"1">>, <<"n","o">>, <<"f","a","l","s","e">>, <<"0">>}

RECURSIVE C8_RawLength(_, _)
\* the total length of the raw texts of the tokens from the n-th on
C8_RawLength(ts, n) ==
    IF n > Len(ts) THEN 0 ELSE Len(ts[n].raw) + C8_RawLength(ts, n + 1)

\* C8: a token with an unrecognized key, an is: token with a value other
\* than generator/used/orphan and a generator: token with a value that is no
\* yes/no word change no field of the FilterState; they are dropped, and
\* like every token their text is taken out of the free text, so none of it
\* reaches search.
C8_IgnoredTokens ==
    \A s \in Texts :
        LET ts   == parseInput(s)
            free == extractFreeText(s)
        IN  /\ \A n \in 1..Len(ts) :
                  ~C8_Effective(ts[n]) =>
                      ApplyToken(filters, ts[n], currentUser) = filters
            /\ tokensToFilters(ts, free, currentUser)
                  = tokensToFilters(SelectSeq(ts, C8_Effective), free, currentUser)
            /\ Len(free) + C8_RawLength(ts, 1) <= Len(s)

\* a token with an unknown key and an is: token with an unreserved value were
\* typed and nothing is filtered
C8_Witness ==
    /\ mounted
    /\ Len(parseInput(inputValue)) >= 2
    /\ \E n \in 1..Len(parseInput(inputValue)) : parseInput(inputValue)[n].key = <<"f","o","o">>
    /\ \E n \in 1..Len(parseInput(inputValue)) : parseInput(inputValue)[n].key = <<"i","s">>
    /\ filters = DEFAULT_FILTER_STATE

----------------------------------------------------------------------------
(* creator:@me                                                             *)

\* what a creator token with value @me stores for the given user
C9_Me(user) == IF user = <<>> THEN <<"@","m","e">> ELSE user

\* creator:@me
C9_Example == <<"c","r","e","a","t","o","r",":","@","m","e">>

\* C9: a creator token whose value is exactly @me stores the current user's
\* identifier when one is supplied, in creators or, negated, in
\* excludeCreators; with no current user the literal @me is stored.
C9_MeExpansion ==
    /\ \A s \in Texts :
         LET ts  == parseInput(s)
             f   == tokensToFilters(ts, extractFreeText(s), currentUser)
             inC == C5_Values(ts, <<"c","r","e","a","t","o","r">>, FALSE)
             exC == C5_Values(ts, <<"c","r","e","a","t","o","r">>, TRUE)
         IN  /\ \A n \in 1..Len(inC) :
                   inC[n] = <<"@","m","e">> =>
                       n <= Len(f.creators) /\ f.creators[n] = C9_Me(currentUser)
             /\ \A n \in 1..Len(exC) :
                   exC[n] = <<"@","m","e">> =>
                       n <= Len(f.excludeCreators)
                           /\ f.excludeCreators[n] = C9_Me(currentUser)
    /\ parseQueryString(C9_Example, <<"a","l","i","c","e">>).creators = << <<"a","l","i","c","e">> >>
    /\ parseQueryString(<<"-","c","r","e","a","t","o","r",":","@","m","e">>, <<"a","l","i","c","e">>).excludeCreators = << <<"a","l","i","c","e">> >>
    /\ parseQueryString(C9_Example, <<>>).creators = << <<"@","m","e">> >>

\* alice opened the page with creator:@me as its query
C9_Witness ==
    /\ mounted
    /\ currentUser = <<"a","l","i","c","e">>
    /\ q = C9_Example
    /\ filters.creators = << <<"a","l","i","c","e">> >>

----------------------------------------------------------------------------
(* The generator tri-state                                                 *)

\* the yes and the no words of a generator: token
C10_Yes == {<<"y","e","s">>, <<"t","r","u","e">>, <<"1">>}
C10_No  == {<<"n","o">>, <<"f","a","l","s","e">>, <<"0">>}

\* a token that sets generator
C10_Sets(t) ==
    \/ t.key = <<"i","s">> /\ toLowerCase(t.value) = <<"g","e","n","e","r","a","t","o","r">>
    \/ t.key = <<"g","e","n","e","r","a","t","o","r">> /\ toLowerCase(t.value) \in C10_Yes \cup C10_No

\* the value such a token gives: a leading '-' inverts it
C10_Given(t) ==
    LET plain == IF t.key = <<"g","e","n","e","r","a","t","o","r">> /\ toLowerCase(t.value) \in C10_No
                 THEN "false" ELSE "true"
    IN  IF ~t.negated THEN plain
        ELSE IF plain = "true" THEN "false" ELSE "true"

\* C10: generator is set by is:generator (true), -is:generator (false),
\* generator:yes|true|1 (true) and generator:no|false|0 (false), the words
\* compared case-insensitively and a leading '-' inverting the result; with
\* several such tokens the last one decides, with none it stays unset.
C10_GeneratorTriState ==
    /\ \A s \in Texts :
         LET setters == SelectSeq(parseInput(s), C10_Sets)
             f       == parseQueryString(s, currentUser)
         IN  f.generator = IF setters = <<>> THEN NULL
                           ELSE C10_Given(setters[Len(setters)])
    /\ parseQueryString(<<"-","g","e","n","e","r","a","t","o","r",":","y","e","s">>, currentUser).generator = "false"
    /\ parseQueryString(<<"-","g","e","n","e","r","a","t","o","r",":","n","o">>, currentUser).generator = "true"
    /\ parseQueryString(<<"g","e","n","e","r","a","t","o","r",":","T","R","U","E">>, currentUser).generator = "true"

\* -generator:no was typed and the published generator is true
C10_Witness ==
    /\ mounted
    /\ inputValue = <<"-","g","e","n","e","r","a","t","o","r",":","n","o"," ">>
    /\ filters.generator = "true"

----------------------------------------------------------------------------
(* The used tri-state                                                      *)

\* a token that sets used
C11_Sets(t) ==
    /\ t.key = <<"i","s">>
    /\ toLowerCase(t.value) \in {<<"u","s","e","d">>, <<"o","r","p","h","a","n">>}

\* the value such a token gives: used is true, orphan false, '-' inverts
C11_Given(t) ==
    IF toLowerCase(t.value) = <<"u","s","e","d">>
    THEN (IF t.negated THEN "false" ELSE "true")
    ELSE (IF t.negated THEN "true" ELSE "false")

\* C11: used is set by is:used (true), -is:used (false), is:orphan (false)
\* and -is:orphan (true); when several tokens set used (or generator) the
\* last of them in input order gives the final value, the earlier ones
\* leaving no trace, and with none the tri-state stays unset.
C11_UsedTriState ==
    /\ \A s \in Texts :
         LET ts      == parseInput(s)
             f       == parseQueryString(s, currentUser)
             setUsed == SelectSeq(ts, C11_Sets)
             setGen  == SelectSeq(ts, C10_Sets)
         IN  /\ f.used = IF setUsed = <<>> THEN NULL
                         ELSE C11_Given(setUsed[Len(setUsed)])
             /\ f.generator = IF setGen = <<>> THEN NULL
                              ELSE C10_Given(setGen[Len(setGen)])
    /\ parseQueryString(<<"i","s",":","u","s","e","d">>, currentUser).used = "true"
    /\ parseQueryString(<<"-","i","s",":","u","s","e","d">>, currentUser).used = "false"
    /\ parseQueryString(<<"i","s",":","o","r","p","h","a","n">>, currentUser).used = "false"
    /\ parseQueryString(<<"-","i","s",":","o","r","p","h","a","n">>, currentUser).used = "true"
    /\ parseQueryString(<<"i","s",":","u","s","e","d"," ","i","s",":","o","r","p","h","a","n"," ","-","i","s",":","g","e","n","e","r","a","t","o","r"," ","i","s",":","g","e","n","e","r","a","t","o","r">>, currentUser).used = "false"
    /\ parseQueryString(<<"i","s",":","o","r","p","h","a","n"," ","-","i","s",":","o","r","p","h","a","n">>, currentUser).used = "true"

\* is:used then is:orphan was typed and the published used is false
C11_Witness ==
    /\ mounted
    /\ inputValue = <<"i","s",":","u","s","e","d"," ","i","s",":","o","r","p","h","a","n"," ">>
    /\ filters.used = "false"

----------------------------------------------------------------------------
(* The free text                                                           *)

\* the indexes of s, in order
C12_Indexes(s) == [i \in 1..Len(s) |-> i]

\* the input without the characters of any token span
C12_Residual(s) ==
    LET ms == TOKEN_PATTERN(s)
        Outside(i) == \A n \in 1..Len(ms) : i < ms[n].start \/ i >= ms[n].end
        kept == SelectSeq(C12_Indexes(s), Outside)
    IN  [k \in 1..Len(kept) |-> s[kept[k]]]

\* where the non-whitespace characters of s stand
C12_Solid(s) ==
    LET NotSpace(i) == s[i] \notin WhiteSpace
    IN  SelectSeq(C12_Indexes(s), NotSpace)

\* r is text trimmed and with every whitespace run collapsed to one space
C12_Normalized(r, text) ==
    LET pr == C12_Solid(r)
        pt == C12_Solid(text)
    IN  /\ r # <<>> => r[1] \notin WhiteSpace /\ r[Len(r)] \notin WhiteSpace
        /\ \A i \in 1..Len(r) :
             r[i] \in WhiteSpace => r[i] = " " /\ r[i + 1] \notin WhiteSpace
        /\ Len(pr) = Len(pt)
        /\ \A k \in 1..Len(pr) : r[pr[k]] = text[pt[k]]
        /\ \A k \in 1..(Len(pr) - 1) :
             (pr[k + 1] = pr[k] + 1) <=> (pt[k + 1] = pt[k] + 1)

\* the spans removed are the spans of the tokens parseInput reports
C12_SameSpans(s) ==
    LET ms == TOKEN_PATTERN(s)
        ts == parseInput(s)
    IN  /\ Len(ms) = Len(ts)
        /\ \A n \in 1..Len(ms) : ts[n].raw = SubSeq(s, ms[n].start, ms[n].end - 1)

\* some token span of s has text that is not whitespace right before it and
\* right after it, which its removal joins
C12_JoinsText(s) ==
    \E m \in {TOKEN_PATTERN(s)[n] : n \in 1..Len(TOKEN_PATTERN(s))} :
        /\ m.start > 1 /\ s[m.start - 1] \notin WhiteSpace
        /\ m.end <= Len(s) /\ s[m.end] \notin WhiteSpace

\* C12 as claimed: extractFreeText is the input with every token span (the
\* spans parseInput reports) removed, trimmed and with every whitespace run
\* collapsed to one space, so it has no leading or trailing whitespace, no two
\* consecutive whitespace characters, and parseInput finds no token in it.
C12_FreeTextHasNoTokens ==
    \A s \in Texts :
        /\ C12_SameSpans(s)
        /\ C12_Normalized(extractFreeText(s), C12_Residual(s))
        /\ parseInput(extractFreeText(s)) = <<>>

\* C12 as amended: the same, except that parseInput finds no token in the
\* result only when no removed span had text that is not whitespace on both
\* of its sides; removing such a span joins the two texts, and the joined
\* text can be a token (x-a:"b":y leaves x:y).
C12_FreeText ==
    /\ \A s \in Texts :
         /\ C12_SameSpans(s)
         /\ C12_Normalized(extractFreeText(s), C12_Residual(s))
         /\ ~C12_JoinsText(s) => parseInput(extractFreeText(s)) = <<>>
    /\ extractFreeText(<<"x","-","a",":","\"","b","\"",":","y">>) = <<"x",":","y">>

\* a token and free text with whitespace runs were typed and the published
\* search is the free text in its normal form
C12_Witness ==
    /\ mounted
    /\ inputValue = <<"g","r","o","u","p",":","a"," "," "," ","x","\t"," ","y"," ">>
    /\ parseInput(inputValue) # <<>>
    /\ filters.search = <<"x"," ","y">>

----------------------------------------------------------------------------
(* Backspace on the empty input box                                        *)

\* the sequences in the order in which backspace looks at them
C13_Order ==
    <<"excludePipelines", "pipelines", "excludeCreators", "creators",
      "excludeScalers", "scalers", "excludeGroups", "groups">>

\* the field of f that the precedence picks, f having an active filter
C13_Target(f) ==
    IF f.search # <<>> THEN "search"
    ELSE IF f.used # NULL THEN "used"
    ELSE IF f.generator # NULL THEN "generator"
    ELSE C13_Order[CHOOSE n \in 1..Len(C13_Order) :
                       /\ f[C13_Order[n]] # <<>>
                       /\ \A k \in 1..(n - 1) : f[C13_Order[k]] = <<>>]

\* g is f with exactly one filter of the field target removed
C13_RemovedFrom(f, g, target) ==
    /\ \A field \in (DOMAIN f) \ {target} : g[field] = f[field]
    /\ target = "search" => g.search = <<>>
    /\ target \in {"used", "generator"} => g[target] = NULL
    /\ target \in SeqFields =>
          /\ Len(g[target]) = Len(f[target]) - 1
          /\ \A n \in 1..Len(g[target]) : g[target][n] = f[target][n]

\* C13: a backspace on the empty input box with at least one active filter
\* removes exactly one filter, chosen by the fixed precedence: search, then
\* used, then generator, then the last element of the first non-empty
\* sequence in the order excludePipelines, pipelines, excludeCreators,
\* creators, excludeScalers, scalers, excludeGroups, groups; every other
\* field, and the input box, are left as they were.
C13_BackspacePrecedence ==
    [][KeyBackspace =>
          /\ inputValue = <<>> /\ hasActiveFilters
          /\ C13_RemovedFrom(filters, filters', C13_Target(filters))
          /\ inputValue' = <<>>]_vars

\* the page was opened with every field set and thirteen backspaces have
\* removed all but the first group
C13_Witness ==
    /\ mounted
    /\ inputValue = <<>>
    /\ Len(q) > MaxLen
    /\ filters = [DEFAULT_FILTER_STATE EXCEPT !.groups = << <<"g","1">> >>]

----------------------------------------------------------------------------
(* The suggestions                                                         *)

\* the cursor positions getSuggestions is looked at with: the caret, the
\* position the component passes, and one past the end of the input
Cursors == {selectionStart, cursorPos, Len(inputValue) + 1}

\* C14: for every input, cursor position and known-value lists getSuggestions
\* returns at most 10 suggestions, and they are the first 10 of the uncapped
\* candidate sequence, in its order.
C14_AtMostTen ==
    \A c \in Cursors :
        LET got == getSuggestions(inputValue, c)
            all == AllSuggestions(inputValue, c)
        IN  /\ Len(got) <= 10
            /\ Len(got) = Min(10, Len(all))
            /\ \A n \in 1..Len(got) : got[n] = all[n]

\* group: is typed with eleven known groups: ten are shown
C14_Witness ==
    /\ inputValue = <<"g","r","o","u","p",":">>
    /\ Len(availableGroups) = 11
    /\ Len(AllSuggestions(inputValue, cursorPos)) = 11
    /\ Len(suggestions) = 10
    /\ showSuggestions

----------------------------------------------------------------------------
(* Key suggestions                                                         *)

\* the word under the cursor c: the text between the last ' ' before c and c
WordAt(c) ==
    LET before == SubSeq(inputValue, 1, Min(c, Len(inputValue)))
        spaces == {i \in 1..Len(before) : before[i] = " "}
        start  == IF spaces = {} THEN 0
                  ELSE CHOOSE i \in spaces : \A j \in spaces : j <= i
    IN  SubSeq(before, start + 1, Len(before))

\* the word without its leading '-'
Unsigned(word) == IF word # <<>> /\ word[1] = "-" THEN Tail(word) ELSE word

\* word is typed mid-key
MidKey(word) == \A i \in 1..Len(word) : word[i] # ":"

\* the key suggestions that the keys of the set keys give for word
C15_Expected(word, keys) ==
    LET sign == IF word # <<>> /\ word[1] = "-" THEN <<"-">> ELSE <<>>
    IN  {[type    |-> "key",
          key     |-> <<>>,
          value   |-> sign \o key \o <<":">>,
          display |-> sign \o key \o <<":">>] :
            key \in {k \in keys : startsWith(k, toLowerCase(Unsigned(word)))}}

\* the suggestions of a sequence, as a set
Range(seq) == {seq[n] : n \in 1..Len(seq)}

\* getSuggestions("gr", 2)
C15_Example == getSuggestions(<<"g","r">>, 2)

\* C15 as claimed: mid-key, getSuggestions suggests every recognized key
\* (group, scaler, creator, pipeline, is, generator) whose name starts with
\* the typed partial compared case-insensitively, as a key suggestion "key:"
\* with a leading '-' exactly when the typed word starts with '-'.
C15_EveryRecognizedKey ==
    \A c \in Cursors :
        MidKey(WordAt(c)) =>
            Range(getSuggestions(inputValue, c)) =
                C15_Expected(WordAt(c),
                    {kGroup, kScaler, kCreator, kPipeline, kIs, kGenerator})

\* C15 as amended: mid-key, getSuggestions suggests every key of FILTER_KEYS
\* (group, scaler, creator, pipeline, is; generator is not among them) whose
\* name starts with the typed partial compared case-insensitively, each once,
\* as a key suggestion "key:" with a leading '-' exactly when the typed word
\* starts with '-'; "gr" at cursor 2 yields "group:".
C15_KeySuggestions ==
    /\ \A c \in Cursors :
         MidKey(WordAt(c)) =>
            LET got == getSuggestions(inputValue, c)
            IN  /\ Range(got) =
                      C15_Expected(WordAt(c), {kGroup, kScaler, kCreator, kPipeline, kIs})
                /\ \A m, n \in 1..Len(got) : m < n => got[m] # got[n]
                /\ \A n \in 1..Len(got) : got[n].value # <<"g","e","n","e","r","a","t","o","r",":">>
                /\ \A n \in 1..Len(got) : got[n].value # <<"-","g","e","n","e","r","a","t","o","r",":">>
    /\ Len(C15_Example) = 1
    /\ C15_Example[1].type = "key"
    /\ C15_Example[1].value = <<"g","r","o","u","p",":">>

\* g is typed: group: is suggested and generator: is not
C15_Witness ==
    /\ inputValue = <<"g">>
    /\ MidKey(WordAt(cursorPos))
    /\ Len(suggestions) = 1
    /\ suggestions[1].value = <<"g","r","o","u","p",":">>

----------------------------------------------------------------------------
(* Value suggestions                                                       *)

\* the word at c written as sign, key, ':' and partial, the key lower-cased
ValueWord(c) ==
    LET word   == Unsigned(WordAt(c))
        colons == {i \in 1..Len(word) : word[i] = ":"}
        colon  == CHOOSE i \in colons : \A j \in colons : i <= j
    IN  [sign    |-> IF WordAt(c) # word THEN <<"-">> ELSE <<>>,
         key     |-> toLowerCase(SubSeq(word, 1, colon - 1)),
         partial |-> SubSeq(word, colon + 1, Len(word))]

\* the partial lower-cased, without the quote that opens a quoted value
TypedPartial(partial) ==
    LET lower == toLowerCase(partial)
    IN  IF lower # <<>> /\ lower[1] = QUOTE THEN Tail(lower) ELSE lower

\* the known values of a key
KnownValuesOf(key) ==
    CASE key = kGroup    -> availableGroups
      [] key = kScaler   -> availableScalers
      [] key = kCreator  -> availableCreators
      [] key = kPipeline -> availablePipelines

\* the suggestions the claim gives for the word w: one per known value that
\* contains the partial, in list order
C16_Expected(w) ==
    LET Holds(v) == Contains(toLowerCase(v), TypedPartial(w.partial))
        values   == SelectSeq(KnownValuesOf(w.key), Holds)
    IN  [n \in 1..Len(values) |->
            [type    |-> "value",
             key     |-> w.key,
             value   |-> w.sign \o w.key \o <<":">> \o
                           (IF \E i \in 1..Len(values[n]) : values[n][i] = " "
                            THEN <<QUOTE>> \o values[n] \o <<QUOTE>>
                            ELSE values[n]),
             display |-> values[n]]]

\* the suggestions without the @me shorthand of creator
C16_WithoutMe(got) ==
    LET Listed(s) == ~(s.key = kCreator /\ startsWith(s.display, <<"@","m","e"," ","(">>))
    IN  SelectSeq(got, Listed)

\* C16: for key:partial with key in group/scaler/creator/pipeline
\* getSuggestions returns, in list order, exactly the entries of the known
\* values of that key that contain the partial as a case-insensitive
\* substring (all of them for the empty partial), each as a value suggestion
\* with that key, the full token to insert (negation prefix kept, the value
\* quoted when it contains a space) and the bare value as display.  (The
\* partial is taken without an opening quote, the creator shorthand @me is
\* left to C17 and the cut to ten suggestions to C14.)
C16_ValueSuggestions ==
    \A c \in Cursors :
        (/\ ~MidKey(WordAt(c))
         /\ ValueWord(c).key \in {kGroup, kScaler, kCreator, kPipeline}) =>
            LET all      == C16_WithoutMe(AllSuggestions(inputValue, c))
                got      == C16_WithoutMe(getSuggestions(inputValue, c))
                expected == C16_Expected(ValueWord(c))
            IN  /\ all = expected
                /\ got = SubSeq(all, 1, Len(got))

----------------------------------------------------------------------------
(* The @me shorthand                                                       *)

\* the @me suggestion for the creator word w
C17_Me(w) ==
    [type    |-> "value",
     key     |-> kCreator,
     value   |-> w.sign \o <<"c","r","e","a","t","o","r",":","@","m","e">>,
     display |-> <<"@","m","e"," ","(">> \o currentUser \o <<")">>]

\* got offers @me, as its first suggestion and nowhere else
C17_OffersMeFirst(got, w) ==
    /\ got # <<>>
    /\ got[1] = C17_Me(w)
    /\ \A n \in 2..Len(got) : got[n] # C17_Me(w)

\* got does not offer @me
C17_OffersNoMe(got, w) ==
    \A n \in 1..Len(got) : got[n] # C17_Me(w) /\ got[n].value # C17_Me(w).value

\* C17 as claimed: for a creator: value in progress getSuggestions offers the
\* @me shorthand, as the first suggestion, if and only if a current user is
\* known and the typed partial is a prefix of "@me" (the empty partial
\* included); a partial such as "me" or "e" does not produce it.
C17_MeOnlyForPrefix ==
    \A c \in Cursors :
        (~MidKey(WordAt(c)) /\ ValueWord(c).key = kCreator) =>
            LET w   == ValueWord(c)
                got == getSuggestions(inputValue, c)
            IN  IF currentUser # <<>> /\ startsWith(kAtMe, TypedPartial(w.partial))
                THEN C17_OffersMeFirst(got, w)
                ELSE C17_OffersNoMe(got, w)

\* C17 as amended: for a creator: value in progress getSuggestions offers the
\* @me shorthand, as the first suggestion, if and only if a current user is
\* known and the typed partial (lower-cased, without an opening quote) occurs
\* in "@me" (the empty partial included); so "me", "m" and "e" produce it as
\* "@" and "@m" do, and a partial such as "b" does not.
C17_MeForSubstring ==
    \A c \in Cursors :
        (~MidKey(WordAt(c)) /\ ValueWord(c).key = kCreator) =>
            LET w   == ValueWord(c)
                got == getSuggestions(inputValue, c)
            IN  IF currentUser # <<>> /\ Contains(kAtMe, TypedPartial(w.partial))
                THEN C17_OffersMeFirst(got, w)
                ELSE C17_OffersNoMe(got, w)

\* alice has typed creator:me and @me is the first suggestion
C17_Witness ==
    /\ inputValue = <<"c","r","e","a","t","o","r",":","m","e">>
    /\ currentUser = <<"a","l","i","c","e">>
    /\ suggestions[1].value = <<"c","r","e","a","t","o","r",":","@","m","e">>
    /\ suggestions[1].display = <<"@","m","e"," ","(","a","l","i","c","e",")">>

----------------------------------------------------------------------------
(* The fixed candidate sets of is: and generator:                          *)

\* the keys that have value suggestions
C18_Recognized == {kGroup, kScaler, kCreator, kPipeline, kIs, kGenerator}

\* the suggestions of the word w drawn from the candidates: one per candidate
\* that contains the partial, in the order of the candidates
C18_Expected(w, candidates) ==
    LET Holds(v) == Contains(v, TypedPartial(w.partial))
        values   == SelectSeq(candidates, Holds)
    IN  [n \in 1..Len(values) |->
            [type    |-> "value",
             key     |-> w.key,
             value   |-> w.sign \o w.key \o <<":">> \o values[n],
             display |-> values[n]]]

\* C18: for is:partial getSuggestions draws from the fixed candidate set
\* {generator, used, orphan} filtered by substring match on the partial, and
\* for generator:partial from the fixed candidate set {yes, no}; no other
\* value is ever suggested for these keys, and a key outside the recognized
\* set yields no value suggestions.
C18_FixedCandidates ==
    \A c \in Cursors :
        ~MidKey(WordAt(c)) =>
            LET w   == ValueWord(c)
                got == getSuggestions(inputValue, c)
            IN  /\ w.key = kIs =>
                     got = C18_Expected(w, <<<<"g","e","n","e","r","a","t","o","r">>, <<"u","s","e","d">>, <<"o","r","p","h","a","n">>>>)
                /\ w.key = kGenerator =>
                     got = C18_Expected(w, <<<<"y","e","s">>, <<"n","o">>>>)
                /\ w.key \notin C18_Recognized => got = <<>>

\* -IS:E has been typed: generator and used are offered, orphan is not
C18_Witness ==
    /\ inputValue = <<"-","I","S",":","E">>
    /\ selectionStart = 5
    /\ Len(suggestions) = 2
    /\ suggestions[1].value = <<"-","i","s",":","g","e","n","e","r","a","t","o","r">>
    /\ suggestions[2].value = <<"-","i","s",":","u","s","e","d">>

----------------------------------------------------------------------------
(* The frame of applySuggestion                                            *)

\* the text up to the cursor c
C19_BeforeCursor(c) == SubSeq(inputValue, 1, Min(c, Len(inputValue)))

\* the text after the cursor c
C19_AfterCursor(c) == SubSeq(inputValue, Min(c, Len(inputValue)) + 1, Len(inputValue))

\* the text before the last whitespace boundary preceding the cursor c, the
\* boundary included
C19_BeforeBoundary(c) ==
    LET before == C19_BeforeCursor(c)
        bounds == {i \in 1..Len(before) : before[i] \in WhiteSpace}
        last   == IF bounds = {} THEN 0
                  ELSE CHOOSE i \in bounds : \A j \in bounds : j <= i
    IN  SubSeq(before, 1, last)

\* C19: applySuggestion replaces only the in-progress token: the result is
\* the input text before the last whitespace boundary preceding the cursor,
\* then the suggestion's insert value, then one space if and only if the
\* suggestion is value-type, then the text after the cursor; all text before
\* that boundary and all text after the cursor is left unchanged.
C19_ReplacesOnlyToken ==
    \A c \in Cursors :
        \A s \in Range(getSuggestions(inputValue, c)) :
            applySuggestion(inputValue, c, s) =
                C19_BeforeBoundary(c) \o s.value
                    \o (IF s.type = "value" THEN <<" ">> ELSE <<>>)
                    \o C19_AfterCursor(c)

----------------------------------------------------------------------------
(* The dropdown after a suggestion is accepted                             *)

\* a suggestion is accepted: by click, by Tab or by Enter
C20_Accepts ==
    \/ clickSuggestion
    \/ KeyTab
    \/ canApplySelected /\ KeyEnter

\* the step puts the suggestion s in place, and leaves the dropdown open
\* exactly if s is key-type, with the selected index at 0
C20_Accepted(s) ==
    /\ inputValue' = applySuggestion(inputValue, cursorPos, s)
    /\ showSuggestions' = (s.type = "key")
    /\ selectedSuggestionIndex' = 0

\* C20: after a suggestion is accepted (by click, Tab or Enter), the
\* suggestion dropdown stays open if and only if the accepted suggestion was
\* key-type; after accepting a value-type suggestion it is closed, and the
\* selected index is reset to 0 in both cases.
C20_OpenIffKeyType ==
    [][C20_Accepts => \E s \in Range(suggestions) : C20_Accepted(s)]_vars

\* the second suggestion of group: has been accepted: the input holds the
\* token and its space, the dropdown is closed and the index is back at 0
C20_Witness ==
    /\ inputValue = <<"g","r","o","u","p",":","b","e","t","a"," ">>
    /\ ~showSuggestions
    /\ selectedSuggestionIndex = 0
    /\ selectionStart = 11

----------------------------------------------------------------------------
(* No operation of the parser throws                                       *)

\* a string
C21_Text == Seq(STRING)

\* a ParsedToken
C21_Token == [key : C21_Text, value : C21_Text, negated : BOOLEAN, raw : C21_Text]

\* a FilterState
C21_FilterState ==
    [search           : C21_Text,
     groups           : Seq(C21_Text),
     excludeGroups    : Seq(C21_Text),
     scalers          : Seq(C21_Text),
     excludeScalers   : Seq(C21_Text),
     generator        : {NULL, Bool(TRUE), Bool(FALSE)},
     creators         : Seq(C21_Text),
     excludeCreators  : Seq(C21_Text),
     used             : {NULL, Bool(TRUE), Bool(FALSE)},
     pipelines        : Seq(C21_Text),
     excludePipelines : Seq(C21_Text)]

\* a Suggestion
C21_Suggestion ==
    [type : {"key", "value"}, key : C21_Text, value : C21_Text, display : C21_Text]

\* the cursor positions of s, 0 and positions past the end included
C21_Positions(s) == 0..(Len(s) + 2)

\* every operation returns a value of its type for the text s
C21_Returns(s) ==
    /\ parseInput(s) \in Seq(C21_Token)
    /\ extractFreeText(s) \in C21_Text
    /\ tokensToFilters(parseInput(s), extractFreeText(s), currentUser) \in C21_FilterState
    /\ parseQueryString(s, currentUser) \in C21_FilterState
    /\ filtersToQueryString(parseQueryString(s, currentUser)) \in C21_Text
    /\ \A c \in C21_Positions(s) :
          /\ getCurrentToken(s, c) \in
                 [partial : C21_Text, isKey : BOOLEAN, key : C21_Text, isNegated : BOOLEAN]
          /\ getSuggestions(s, c) \in Seq(C21_Suggestion)
          /\ \A n \in 1..Len(getSuggestions(s, c)) :
                 applySuggestion(s, c, getSuggestions(s, c)[n]) \in C21_Text

\* the malformed parts of s degrade: a token with an unknown key sets
\* nothing, and a fragment with an unterminated quote is in the free text
C21_Degrades(s) ==
    /\ \A n \in 1..Len(parseInput(s)) :
          LET t == parseInput(s)[n]
          IN  t.key \notin {kGroup, kScaler, kCreator, kPipeline, kIs, kGenerator} =>
                  ApplyToken(DEFAULT_FILTER_STATE, t, currentUser) = DEFAULT_FILTER_STATE
    /\ \A k \in C7_OpenQuotes(s) :
          Contains(parseQueryString(s, currentUser).search, C7_Fragment(s, k))

\* C21: the parser component never throws: parseInput, extractFreeText,
\* tokensToFilters, filtersToQueryString, parseQueryString, getCurrentToken,
\* getSuggestions and applySuggestion return a value for every input string,
\* every cursor position (including 0 and positions past the end) and every
\* token sequence, with malformed input degrading to free text or being
\* dropped.
C21_NeverThrows ==
    \A s \in Texts : C21_Returns(s) /\ C21_Degrades(s)

----------------------------------------------------------------------------
(* Enter: submit and sync to the URL                                       *)

\* the step submits: onSubmit(filters, filtersToQueryString(filters)), and
\* the page stores the string as q, an empty string removing q (q = <<>>
\* stands for a URL without q)
C23_Submits ==
    /\ q' = filtersToQueryString(filters)
    /\ UNCHANGED <<inputValue, filters>>

----------------------------------------------------------------------------
(* The published FilterState follows the input text                        *)

\* the input text changes: by an input-change event or by the acceptance of
\* a suggestion
C24_InputChanges ==
    \/ \E text \in Chunks \cup Typed : handleInputChange(text)
    \/ C20_Accepts

\* C24: FilterState starts as the empty default on mount, and after every
\* input-change event and every suggestion acceptance the FilterState
\* published through onChange equals tokensToFilters(parseInput(text),
\* extractFreeText(text), currentUser) for the new input text, so the
\* published filters always reflect the whole current input text in real
\* time.
C24_FiltersFollowInput ==
    /\ filters = DEFAULT_FILTER_STATE
    /\ [][C24_InputChanges =>
             filters' = tokensToFilters(parseInput(inputValue'),
                                        extractFreeText(inputValue'),
                                        currentUser)]_vars

\* x  gr  y was typed and group: accepted in place of gr: the published
\* filters are those of the new text, free text included
C24_Witness ==
    /\ inputValue = <<"x"," "," ","g","r","o","u","p",":","y">>
    /\ filters.groups = <<<<"y">>>>
    /\ filters.search = <<"x">>

----------------------------------------------------------------------------
(* The images listed for a FilterState                                     *)

\* the values of a sequence
C25_Values(a) == {a[n] : n \in 1..Len(a)}

\* the pipelines that use the image
C25_UsedBy(image) ==
    IF Defined(image.used_by) THEN C25_Values(image.used_by[1]) ELSE {}

\* the image matches the search text: its name or its description contains
\* it, letter case apart
C25_MatchesSearch(image, search) ==
    \/ Defined(image.name) /\ Contains(toLowerCase(image.name[1]), toLowerCase(search))
    \/ Defined(image.description)
         /\ Contains(toLowerCase(image.description[1]), toLowerCase(search))

\* v passes a dimension: it is included when anything is, and not excluded
C25_Passes(v, include, exclude) ==
    /\ include # <<>> => v \in C25_Values(include)
    /\ v \notin C25_Values(exclude)

\* the image matches every active dimension of f
C25_MatchesAll(image, f) ==
    /\ f.search # <<>> => C25_MatchesSearch(image, f.search)
    /\ C25_Passes(image.group, f.groups, f.excludeGroups)
    /\ C25_Passes(image.scaler, f.scalers, f.excludeScalers)
    /\ C25_Passes(image.creator, f.creators, f.excludeCreators)
    /\ f.generator # NULL => image.generator = f.generator
    /\ f.used # NULL => ((C25_UsedBy(image) # {}) <=> (f.used = Bool(TRUE)))
    /\ f.pipelines # <<>> => C25_UsedBy(image) \cap C25_Values(f.pipelines) # {}
    /\ C25_UsedBy(image) \cap C25_Values(f.excludePipelines) = {}

\* C25: image filtering applies every active dimension conjunctively: an
\* image is listed iff it matches the search text (name or description
\* substring, case-insensitive), its group/scaler/creator is in the include
\* sequence when that is non-empty and is in no exclude sequence, generator
\* equals the tri-state when set, used (referenced by at least one pipeline)
\* equals the tri-state when set, it is used by at least one included
\* pipeline when any are given and by no excluded pipeline; a negated value
\* always excludes, and the default FilterState lists every image.
C25_ConjunctiveFiltering ==
    /\ \A image \in images :
          image \in filteredImages <=> C25_MatchesAll(image, filters)
    /\ filters = DEFAULT_FILTER_STATE => filteredImages = images

\* pipelines are included and excluded, a search text is set, and some
\* images are listed while others are not
C25_Witness ==
    /\ filters.pipelines # <<>>
    /\ filters.excludePipelines # <<>>
    /\ filters.search # <<>>
    /\ filters.used # NULL
    /\ filteredImages # {}
    /\ filteredImages # images
    /\ \E image \in images \ filteredImages :
          C25_UsedBy(image) \cap C25_Values(filters.pipelines) # {}

----------------------------------------------------------------------------
(* Repeated Backspace empties the filters                                  *)

\* the number of active filters of f: the search text, each set tri-state
\* and each element of each sequence
C26_Active(f) ==
    (IF f.search # <<>> THEN 1 ELSE 0)
      + (IF f.generator # NULL THEN 1 ELSE 0)
      + (IF f.used # NULL THEN 1 ELSE 0)
      + Len(f.groups) + Len(f.excludeGroups)
      + Len(f.scalers) + Len(f.excludeScalers)
      + Len(f.creators) + Len(f.excludeCreators)
      + Len(f.pipelines) + Len(f.excludePipelines)

\* g is f without one active filter: one field lost its text, its tri-state
\* or its last element, and no other field changed
C26_OneRemoved(f, g) ==
    \E d \in DOMAIN f :
        /\ \A e \in DOMAIN f \ {d} : g[e] = f[e]
        /\ IF d = "search" THEN f[d] # <<>> /\ g[d] = <<>>
           ELSE IF d \in {"generator", "used"} THEN f[d] # NULL /\ g[d] = NULL
           ELSE f[d] # <<>> /\ g[d] = SubSeq(f[d], 1, Len(f[d]) - 1)

\* C26: starting from any FilterState with empty input, repeated
\* backspace-on-empty removes exactly one active filter per press (search, a
\* set tri-state, or one sequence element) and reaches the empty default
\* FilterState after exactly N presses, where N is the number of active
\* filters; once the state is empty, further backspaces publish no change.
C26_BackspaceCountsDown ==
    /\ [](/\ hasActiveFilters <=> C26_Active(filters) > 0
          /\ C26_Active(filters) = 0 <=> filters = DEFAULT_FILTER_STATE)
    /\ [][KeyBackspace =>
             /\ inputValue = <<>>
             /\ C26_OneRemoved(filters, filters')
             /\ C26_Active(filters') = C26_Active(filters) - 1]_vars

\* Backspace was pressed four times on the filters of the URL: of the two
\* excluded scalers one is left
C26_Witness ==
    /\ inputValue = <<>>
    /\ filters.used = NULL
    /\ filters.creators = <<>>
    /\ filters.excludeCreators = <<>>
    /\ filters.excludeScalers = <<<<"s","2">>>>
    /\ filters.scalers = <<<<"s","1">>>>
    /\ C26_Active(filters) = 2

----------------------------------------------------------------------------
(* Removing a filter through its badge                                     *)

\* the field of the FilterState that the badge b stands for
C27_Field(b) ==
    CASE b.type = "group"     -> IF b.negated THEN "excludeGroups" ELSE "groups"
      [] b.type = "scaler"    -> IF b.negated THEN "excludeScalers" ELSE "scalers"
      [] b.type = "creator"   -> IF b.negated THEN "excludeCreators" ELSE "creators"
      [] b.type = "pipeline"  -> IF b.negated THEN "excludePipelines" ELSE "pipelines"
      [] b.type = "generator" -> "generator"
      [] b.type = "used"      -> "used"
      [] b.type = "search"    -> "search"

RECURSIVE C27_Rest(_, _)
\* the sequence a with every occurrence of v taken out, the rest in order
C27_Rest(a, v) ==
    IF a = <<>> THEN <<>>
    ELSE IF Head(a) = v THEN C27_Rest(Tail(a), v)
    ELSE <<Head(a)>> \o C27_Rest(Tail(a), v)

\* g is f with the filter of the badge b removed and nothing else changed
C27_Removed(b, f, g) ==
    /\ \A e \in DOMAIN f \ {C27_Field(b)} : g[e] = f[e]
    /\ g[C27_Field(b)] =
           IF b.type = "search" THEN <<>>
           ELSE IF b.type \in {"generator", "used"} THEN NULL
           ELSE C27_Rest(f[C27_Field(b)], b.value)

\* C27: removing a filter through its badge changes only the targeted field:
\* for a sequence dimension it removes every occurrence of the given value
\* from the include sequence (or the exclude sequence when negated) and keeps
\* the order of the rest, for generator/used it resets the tri-state to
\* unset, for search it empties it; all other FilterState fields and the raw
\* input text stay unchanged.
C27_BadgeRemovesOnlyItsFilter ==
    [][\A b \in Badges :
          onRemove(b) => C27_Removed(b, filters, filters') /\ inputValue' = inputValue]_vars

\* fox group:g1 group:g1 was typed and the badge of g1 removed: both
\* occurrences are gone from groups, the search text and the input text stay
C27_Witness ==
    /\ inputValue = <<"f","o","x"," ","g","r","o","u","p",":","g","1"," ","g","r","o","u","p",":","g","1">>
    /\ filters.groups = <<>>
    /\ filters.search = <<"f","o","x">>

----------------------------------------------------------------------------
(* FilterState objects are never changed in place                          *)

\* the shared default object and its arrays are as the module wrote them
C22_DefaultIntact ==
    /\ objects[1] = DefaultObject
    /\ \A n \in 1..8 : arrays[n] = <<>>
    /\ Deref(objects[1]) = DEFAULT_FILTER_STATE

\* the step changes no object and no array that exists before it
C22_NothingChangedInPlace ==
    /\ Len(objects') >= Len(objects)
    /\ Len(arrays') >= Len(arrays)
    /\ \A n \in 1..Len(objects) : objects'[n] = objects[n]
    /\ \A n \in 1..Len(arrays) : arrays'[n] = arrays[n]

\* C22: FilterState is replaced wholesale and never mutated in place: no
\* operation (tokensToFilters, removeFilter, removeLastFilter, clearAll,
\* input change) modifies a previously published FilterState object or any
\* of its sequences, and in particular the shared DEFAULT_FILTER_STATE and
\* its empty arrays stay empty after any sequence of operations.
C22_ReplacedWholesale ==
    /\ [](C22_DefaultIntact /\ Deref(objects[current]) = filters)
    /\ [][C22_NothingChangedInPlace]_vars

\* three FilterState objects were published after the default one; the
\* held one shares an array with an earlier one and differs in another
C22_Witness ==
    /\ Len(objects) = MaxObjects
    /\ current = MaxObjects
    /\ \E n \in 2..(MaxObjects - 1) :
          /\ objects[n].groups = objects[current].groups
          /\ objects[n].groups > 8
          /\ objects[n].excludeGroups # objects[current].excludeGroups

----------------------------------------------------------------------------
(* C28 : the records of the tag editor                                     *)

\* the (key, value) pairs of a record of tags
C28_Pairs(obj) ==
    UNION {{<<k, obj[k][n]>> : n \in 1..Len(obj[k])} : k \in DOMAIN obj}

RECURSIVE C28_Values(_, _)
\* the values of a record of tags, one after the other
C28_Values(obj, keys) ==
    IF keys = <<>> THEN <<>>
    ELSE obj[Head(keys)] \o C28_Values(obj, Tail(keys))

C28_NoTagInBoth == C28_Pairs(pendingTags) \cap C28_Pairs(deletedTags) = {}

C28_CountsChanges ==
    numberOfChanges =
        Len(C28_Values(pendingTags, sort(DOMAIN pendingTags)))
            + Len(C28_Values(deletedTags, sort(DOMAIN deletedTags)))
            + Len(invalidPendingTags)

\* a step of one of the two selects
C28_OnChange ==
    /\ editing /\ editing'
    /\ ~showUpdateModal /\ ~showUpdateModal'
    /\ tags' = tags

\* the option gets selected, resp. removed, in the step from value to value'
C28_Selects(option) ==
    /\ C28_OnChange
    /\ \/ selectedTlpTags' = Append(selectedTlpTags, option)
          /\ arrayIncludes(tlpTagOptions, option)
       \/ selectedGeneralTags' = Append(selectedGeneralTags, option)
          /\ arrayIncludes(generalTagOptions, option)

C28_Removes(option) ==
    /\ C28_OnChange
    /\ \/ \E n \in 1..Len(selectedTlpTags) :
              /\ selectedTlpTags[n] = option
              /\ selectedTlpTags' = RemoveAt(selectedTlpTags, n)
              /\ UNCHANGED selectedGeneralTags
       \/ \E n \in 1..Len(selectedGeneralTags) :
              /\ selectedGeneralTags[n] = option
              /\ selectedGeneralTags' = RemoveAt(selectedGeneralTags, n)
              /\ UNCHANGED selectedTlpTags

C28_Options ==
    {tlpTagOptions[n] : n \in 1..Len(tlpTagOptions)}
        \cup {generalTagOptions[n] : n \in 1..Len(generalTagOptions)}
        \cup {selectedGeneralTags[n] : n \in 1..Len(selectedGeneralTags)}

C28_Pair(option) == <<option.thoriumTag.key, option.thoriumTag.value>>

\* selecting a tag that is pending deletion cancels the deletion
C28_SelectCancelsDeletion ==
    \A option \in C28_Options :
        C28_Selects(option) /\ C28_Pair(option) \in C28_Pairs(deletedTags)
            => /\ C28_Pair(option) \notin C28_Pairs(deletedTags')
               /\ pendingTags' = pendingTags

\* removing a tag that is pending addition cancels the addition
C28_RemoveCancelsAddition ==
    \A option \in C28_Options :
        C28_Removes(option) /\ C28_Pair(option) \in C28_Pairs(pendingTags)
            => /\ C28_Pair(option) \notin C28_Pairs(pendingTags')
               /\ deletedTags' = deletedTags

\* C28: in the tag editor no (key, value) is in both pendingTags and
\* deletedTags, numberOfChanges is the number of values of pendingTags plus
\* that of deletedTags plus the number of invalidPendingTags, selecting a tag
\* that is pending deletion cancels the deletion, and removing a tag that is
\* pending addition cancels the addition
C28_RecordsConsistent ==
    /\ [](C28_NoTagInBoth /\ C28_CountsChanges)
    /\ [][C28_SelectCancelsDeletion /\ C28_RemoveCancelsAddition]_vars

\* the parts of C28 apart from the first
C28_ApartFromBoth ==
    /\ []C28_CountsChanges
    /\ [][C28_SelectCancelsDeletion /\ C28_RemoveCancelsAddition]_vars

----------------------------------------------------------------------------
(* C29 : committing the tag changes                                        *)

\* the requests a call that captured c has issued once it has got as far as
\* the upload: the delete if deletedTags has keys, then the upload if
\* pendingTags has keys
C29_Updates(c) ==
    (IF DOMAIN c.deletedTags # {}
     THEN <<Request("DELETE", c.deletedTags)>> ELSE <<>>)
    \o (IF DOMAIN c.pendingTags # {}
        THEN <<Request("POST", c.pendingTags)>> ELSE <<>>)

\* the delete goes out before the upload, and the details are asked for
\* after both and only if neither failed
C29_InOrder ==
    /\ commit.pc = "deleteRepoTags" =>
           /\ DOMAIN commit.deletedTags # {}
           /\ requests = <<Request("DELETE", commit.deletedTags)>>
    /\ commit.pc = "uploadRepoTags" => requests = C29_Updates(commit)
    /\ commit.pc = "getRepoDetails" =>
           /\ requests = Append(C29_Updates(commit), Request("GET", EmptyObject))
           /\ ~commit.error

\* a step of commitTagUpdates
C29_Commits == commit' # commit

\* a step of commitTagUpdates in which a request has failed
C29_Failed ==
    /\ C29_Commits
    /\ \/ commit'.error
       \/ commit.pc \in {"deleteRepoTags", "uploadRepoTags"} /\ commit'.pc = "idle"

\* the modal is closed, edit mode left and the tags replaced only by the step
\* that receives the details, and then all at once
C29_OnlyWithDetails ==
    C29_Commits
        /\ (showUpdateModal' # showUpdateModal \/ editing' # editing
                \/ tags' # tags \/ pendingTags' # pendingTags
                \/ deletedTags' # deletedTags)
        => /\ commit.pc = "getRepoDetails"
           /\ ~commit.error
           /\ ~showUpdateModal'
           /\ ~editing'
           /\ tags' = updatedRepoTags(tags, commit.deletedTags,
                                      commit.pendingTags)

\* a failed request leaves the modal, edit mode and the two records alone,
\* and no request for the details follows it
C29_FailureKeeps ==
    C29_Failed
        => /\ UNCHANGED <<showUpdateModal, editing, pendingTags, deletedTags>>
           /\ commit'.pc # "getRepoDetails"
           /\ \A n \in 1..Len(requests') : requests'[n].method # "GET"

\* C29: committing tag changes issues the delete request (if deletedTags is
\* not empty) before the upload request (if pendingTags is not empty); the
\* details are fetched again, the modal closed and edit mode left only if no
\* request failed and the fetch returned details; if the delete or the upload
\* fails, the modal, edit mode, pendingTags and deletedTags stay as they are
C29_CommitInOrder ==
    /\ []C29_InOrder
    /\ [][C29_OnlyWithDetails /\ C29_FailureKeeps]_vars

\* a commit has deleted, uploaded, fetched the details and left edit mode
C29_Witness ==
    /\ commit.pc = "idle"
    /\ Len(requests) = 3
    /\ requests[1].method = "DELETE"
    /\ requests[2].method = "POST"
    /\ requests[3].method = "GET"
    /\ ~editing
    /\ ~showUpdateModal
    /\ tags # EmptyObject
    /\ kTLP \notin DOMAIN tags

----------------------------------------------------------------------------
(* C30 : the commits tab and the requests it awaits                        *)

\* the kinds that are selected now
C30_Kinds == buildKindsFilter(showCommits, showBranches, showTags)

\* the entries of the selected kinds, as the API lists them
C30_Selected ==
    LET OfKind(entry) == arrayIncludes(C30_Kinds, entry.kind)
    IN  SelectSeq(Repository, OfKind)

\* the list is the first page for the selected kinds followed by the pages
\* that follow it, up to the cursor
C30_ListIsCurrent ==
    /\ commitishList =
           SubSeq(C30_Selected, 1,
                  IF Defined(cursor) THEN cursor[1] ELSE Len(commitishList))
    /\ Len(commitishList) <= Len(C30_Selected)
    /\ \A n \in 1..Len(commitishList) :
           arrayIncludes(C30_Kinds, commitishList[n].kind)

\* the n-th awaited request returns in this step
C30_Returns(n) ==
    /\ n \in 1..Len(fetches)
    /\ fetches' = RemoveAt(fetches, n)
    /\ UNCHANGED <<showCommits, showBranches, showTags>>

\* a response to a request made for other kinds than those selected now
\* (none selected included) leaves the list and the cursor alone
C30_StaleIgnored ==
    \A n \in 1..Len(fetches) :
        C30_Returns(n) /\ fetches[n].params.kinds # C30_Kinds
            => UNCHANGED <<commitishList, cursor>>

\* C30: in the commits tab, once every awaited fetch has completed, the list
\* holds only entries returned for the selected kinds (the first page and
\* the pages Load More appended from the latest cursor), and a response to a
\* request made under an earlier selection, or arriving after all kinds were
\* deselected, never ends up in the list or sets the cursor
C30_ListFollowsSelection ==
    /\ [](fetches = <<>> => C30_ListIsCurrent)
    /\ [][C30_StaleIgnored]_vars

\* no fetch is awaited and the list shows a kind that is not selected
C30_StaleList ==
    /\ fetches = <<>>
    /\ \E n \in 1..Len(commitishList) :
           ~arrayIncludes(C30_Kinds, commitishList[n].kind)

====
